---- MODULE Spec2Model ----
(***************************************************************************)
(* Fixed64 lookup-table evaluators (scripts/generate_*_lut.py).            *)
(*                                                                         *)
(* Every generator emits constant tables and two evaluators that take      *)
(* (value, input_fraction_bits) and return a value at the same fraction    *)
(* bit count.  The model instantiates the generators at a small word:      *)
(* int64_t is a two's complement word of WordBits bits and the generators  *)
(* run with fraction_bits = kOutputFractionBits, so that every input of    *)
(* the canonical domains can be enumerated.  A request (evaluator, x, F)   *)
(* is drawn by Init; the action of the evaluator answers it.               *)
(***************************************************************************)
EXTENDS Integers, Sequences, FiniteSets, TLC

(***************************************************************************)
(* Word and formats                                                        *)
(***************************************************************************)
WordBits == 24

INT64_MAX == 2^(WordBits - 1) - 1

INT64_MIN == -(2^(WordBits - 1))

kOutputFractionBits == 10

kOne == 2^kOutputFractionBits

one_in_fp == 2^kOutputFractionBits

MinInputBits == 9

MaxInputBits == 11

InputBits == MinInputBits..MaxInputBits

\* conversion of a mathematical integer to the signed word (two's complement)
Wrap(v) == ((v - INT64_MIN) % 2^WordBits) + INT64_MIN

\* x << n on int64_t: the low WordBits bits of x * 2^n
ShiftLeft(x, n) == Wrap((x % 2^(WordBits - n)) * 2^n)

\* x >> n on int64_t (arithmetic shift: floor)
ShiftRight(x, n) == x \div 2^n

\* C++ a % b (remainder of the division truncated toward zero), b > 0
CRem(a, b) == IF a >= 0 THEN a % b ELSE -((-a) % b)

\* "Convert input to internal format if needed"
ConvertInput(x, input_fraction_bits) ==
    IF input_fraction_bits < kOutputFractionBits
    THEN ShiftLeft(x, kOutputFractionBits - input_fraction_bits)
    ELSE IF input_fraction_bits > kOutputFractionBits
         THEN ShiftRight(x, input_fraction_bits - kOutputFractionBits)
         ELSE x

\* "Convert result back to input format if needed"
ConvertResult(result, input_fraction_bits) ==
    IF input_fraction_bits < kOutputFractionBits
    THEN ShiftRight(result, kOutputFractionBits - input_fraction_bits)
    ELSE IF input_fraction_bits > kOutputFractionBits
         THEN ShiftLeft(result, input_fraction_bits - kOutputFractionBits)
         ELSE result

(***************************************************************************)
(* Primitives (primitives.h): mul and div round to nearest, div by zero    *)
(* saturates.                                                              *)
(***************************************************************************)
\* round(a * b / 2^fraction_bits), the product taken at double width and the
\* result cut to the word; a and b are split at the binary point so that no
\* partial product leaves the range of the checker's integers
Fixed64Mul(a, b, fraction_bits) ==
    LET s  == 2^fraction_bits
        ah == a \div s
        al == a % s
        bh == b \div s
        bl == b % s
    IN  Wrap(ShiftLeft(Wrap(ah * bh), fraction_bits) + ah * bl + al * bh
             + (al * bl + 2^(fraction_bits - 1)) \div s)

\* quotient and remainder of r * 2^n by d, for 0 <= r < d, one bit at a time
RECURSIVE LongDivision(_, _, _)
LongDivision(r, d, n) ==
    IF n = 0 THEN [q |-> 0, r |-> r]
    ELSE LET p  == LongDivision(r, d, n - 1)
             r2 == 2 * p.r
         IN  IF r2 >= d THEN [q |-> 2 * p.q + 1, r |-> r2 - d] ELSE [q |-> 2 * p.q, r |-> r2]

\* round(n * 2^fraction_bits / d) for d > 0, cut to the word
RoundedQuotient(n, d, fraction_bits) ==
    LET f == LongDivision(n % d, d, fraction_bits)
    IN  Wrap(ShiftLeft(n \div d, fraction_bits) + f.q + (IF 2 * f.r >= d THEN 1 ELSE 0))

\* round(a * 2^fraction_bits / b); saturated when b = 0
Fixed64Div(a, b, fraction_bits) ==
    IF b = 0 THEN (IF a >= 0 THEN INT64_MAX ELSE INT64_MIN)
    ELSE IF b > 0 THEN RoundedQuotient(a, b, fraction_bits)
    ELSE RoundedQuotient(-a, -b, fraction_bits)

(***************************************************************************)
(* Outcome of one evaluation.  value is the returned word; fault is set    *)
(* when the evaluation did not return a value; path names the return       *)
(* statement; xin is x after sign handling and input conversion; idx, t    *)
(* are the bracket index and offset; reads is the set of table indices     *)
(* read; exponent, mantissa, interp are the log2 normalisation values;     *)
(* overflow is set when an intermediate term left the range of the word.   *)
(***************************************************************************)
Outcome(value, path, neg, xin, idx, t, reads) ==
    [value |-> value, fault |-> FALSE, path |-> path, neg |-> neg, xin |-> xin,
     idx |-> idx, t |-> t, reads |-> reads,
     exponent |-> 0, mantissa |-> 0, interp |-> 0, overflow |-> FALSE]

\* An execution that runs into undefined behaviour (signed overflow of -x, a
\* read outside a std::array): what it returns is settled by Resolve.
Undefined(neg, xin, idx, reads) ==
    [value |-> 0, fault |-> FALSE, path |-> "ub",
     neg |-> neg, xin |-> xin, idx |-> idx, t |-> 0, reads |-> reads,
     exponent |-> 0, mantissa |-> 0, interp |-> 0, overflow |-> FALSE]

\* words an execution with undefined behaviour may go on with
Garbage == {INT64_MIN, -1, 0, 1, kOne, INT64_MAX}

\* The outcomes of an evaluation: the one the code computes, or, after
\* undefined behaviour, a trap or any word.
Resolve(r) ==
    IF r.path = "ub"
    THEN {[r EXCEPT !.fault = TRUE]} \cup {[r EXCEPT !.value = g] : g \in Garbage}
    ELSE {r}

(***************************************************************************)
(* generate_acos_lut.py with entries = 8, fraction_bits = 10               *)
(***************************************************************************)
\* int((cos(pi (2i+1) / (2n)) + 1) / 2 * scale), reversed: ascending
kAcosXValues == <<9, 86, 227, 412, 611, 796, 937, 1014>>

\* int(acos(x) * scale) at the same nodes
kAcosLut == <<1598, 1522, 1379, 1184, 952, 695, 423, 142>>

\* int(pi * scale)
kPi == 3216

RECURSIVE AcosBinarySearch(_, _, _)
AcosBinarySearch(x, left, right) ==
    IF left > right THEN right
    ELSE LET mid == left + (right - left) \div 2
         IN IF kAcosXValues[mid + 1] < x THEN AcosBinarySearch(x, mid + 1, right)
            ELSE IF kAcosXValues[mid + 1] > x THEN AcosBinarySearch(x, left, mid - 1)
            ELSE mid

FindAcosIndex(x, output_fraction_bits) ==
    LET table_size == Len(kAcosXValues)
    IN IF x >= 2^output_fraction_bits THEN table_size - 1
       ELSE IF x <= 0 THEN 0
       ELSE AcosBinarySearch(x, 0, table_size - 1)

\* "Handle negative input using acos(-x) = pi - acos(x)", then
\* "Convert result back to input format if needed"
AcosFinish(result, is_negative, input_fraction_bits) ==
    ConvertResult(IF is_negative THEN Wrap(kPi - result) ELSE result, input_fraction_bits)

\* variant: the clamp answers with the nearest table entry instead of the
\* exact boundary value
AcosClamp_TableEnd(is_negative, input_fraction_bits) ==
    AcosFinish(kAcosLut[Len(kAcosLut)], is_negative, input_fraction_bits)

\* "|x| >= 1.0, return 0 for positive x or pi for negative x"
AcosClamp(is_negative, input_fraction_bits) ==
    ConvertResult(IF is_negative THEN kPi ELSE 0, input_fraction_bits)

\* linear interpolation between the nodes idx and idx + 1
AcosLinear(x, idx) ==
    LET x0 == kAcosXValues[idx + 1]
        x1 == kAcosXValues[idx + 2]
        y0 == kAcosLut[idx + 1]
        y1 == kAcosLut[idx + 2]
        t  == Fixed64Div(Wrap(x - x0), x1 - x0, kOutputFractionBits)
    IN  [t |-> t, result |-> Wrap(y0 + Fixed64Mul(y1 - y0, t, kOutputFractionBits))]

LookupAcosFast(x0, input_fraction_bits) ==
    LET is_negative == x0 < 0
        N == Len(kAcosXValues)
    IN
    IF x0 = INT64_MIN THEN Undefined(TRUE, x0, 0, {})      \* x = -x overflows
    ELSE
    LET x == ConvertInput(IF is_negative THEN -x0 ELSE x0, input_fraction_bits)
        idx == FindAcosIndex(x, kOutputFractionBits)
    IN
    IF x >= one_in_fp
    THEN Outcome(AcosClamp(is_negative, input_fraction_bits), "clamp", is_negative, x, 0, 0, {})
    ELSE IF idx \notin 0..(N - 1)
    THEN Undefined(is_negative, x, idx, {idx})              \* kAcosXValues[idx] outside the array
    ELSE IF kAcosXValues[idx + 1] = x
    THEN Outcome(AcosFinish(kAcosLut[idx + 1], is_negative, input_fraction_bits),
                 "exact", is_negative, x, idx, 0, {idx})
    ELSE IF idx + 1 >= N
    THEN Outcome(AcosFinish(kAcosLut[idx + 1], is_negative, input_fraction_bits),
                 "last", is_negative, x, idx, 0, {idx})
    ELSE LET r == AcosLinear(x, idx)
         IN Outcome(AcosFinish(r.result, is_negative, input_fraction_bits),
                    "interp", is_negative, x, idx, r.t, {idx, idx + 1})

\* quadratic (Lagrange) interpolation through the nodes idx - 1, idx, idx + 1;
\* the missing neighbour of a boundary node is mirrored
AcosQuadratic(x, idx) ==
    LET N  == Len(kAcosLut)
        y1 == kAcosLut[idx + 1]
        y2 == IF idx < N - 1 THEN kAcosLut[idx + 2] ELSE y1 * 2 - kAcosLut[idx]
        y0 == IF idx > 0 THEN kAcosLut[idx] ELSE y1 + (y1 - y2)
        x1 == kAcosXValues[idx + 1]
        x0 == IF idx > 0 THEN kAcosXValues[idx] ELSE x1 + (x1 - kAcosXValues[idx + 2])
        x2 == IF idx < N - 1 THEN kAcosXValues[idx + 2] ELSE x1 - (kAcosXValues[idx] - x1)
        x_minus_x0 == Wrap(x - x0)
        x_minus_x1 == Wrap(x - x1)
        x_minus_x2 == Wrap(x - x2)
        L0_num == Fixed64Mul(x_minus_x1, x_minus_x2, kOutputFractionBits)
        L0_den == Fixed64Mul(x0 - x1, x0 - x2, kOutputFractionBits)
        L0     == Fixed64Div(L0_num, L0_den, kOutputFractionBits)
        L1_num == Fixed64Mul(x_minus_x0, x_minus_x2, kOutputFractionBits)
        L1_den == Fixed64Mul(x1 - x0, x1 - x2, kOutputFractionBits)
        L1     == Fixed64Div(L1_num, L1_den, kOutputFractionBits)
        L2_num == Fixed64Mul(x_minus_x0, x_minus_x1, kOutputFractionBits)
        L2_den == Fixed64Mul(x2 - x0, x2 - x1, kOutputFractionBits)
        L2     == Fixed64Div(L2_num, L2_den, kOutputFractionBits)
    IN  Wrap(Fixed64Mul(y0, L0, kOutputFractionBits)
             + Fixed64Mul(y1, L1, kOutputFractionBits)
             + Fixed64Mul(y2, L2, kOutputFractionBits))

LookupAcos(x0, input_fraction_bits) ==
    LET is_negative == x0 < 0
        N == Len(kAcosXValues)
    IN
    IF x0 = INT64_MIN THEN Undefined(TRUE, x0, 0, {})      \* x = -x overflows
    ELSE
    LET x == ConvertInput(IF is_negative THEN -x0 ELSE x0, input_fraction_bits)
        idx == FindAcosIndex(x, kOutputFractionBits)
    IN
    IF x >= one_in_fp
    THEN Outcome(AcosClamp(is_negative, input_fraction_bits), "clamp", is_negative, x, 0, 0, {})
    ELSE IF idx \notin 0..(N - 1)
    THEN Undefined(is_negative, x, idx, {idx})              \* kAcosXValues[idx] outside the array
    ELSE IF kAcosXValues[idx + 1] = x
    THEN Outcome(AcosFinish(kAcosLut[idx + 1], is_negative, input_fraction_bits),
                 "exact", is_negative, x, idx, 0, {idx})
    ELSE Outcome(AcosFinish(AcosQuadratic(x, idx), is_negative, input_fraction_bits),
                 "interp", is_negative, x, idx, 0,
                 {idx} \cup (IF idx > 0 THEN {idx - 1} ELSE {}) \cup (IF idx < N - 1 THEN {idx + 1} ELSE {}))

(***************************************************************************)
(* generate_atan_lut.py with entries = 8, fraction_bits = 10               *)
(***************************************************************************)
\* int(atan(i / (entries - 1)) * scale)
kAtanLut == <<0, 145, 284, 414, 531, 635, 725, 804>>

\* variant: the sign of the input is not restored
ApplySign_Dropped(result, is_negative) == result

\* "return is_negative ? -result : result"
ApplySign(result, is_negative) == IF is_negative THEN Wrap(-result) ELSE result

\* variant: the clamp reads the entry before the last one
AtanClamp_OffByOne(is_negative, input_fraction_bits) ==
    ApplySign(ConvertResult(kAtanLut[Len(kAtanLut) - 1], input_fraction_bits), is_negative)

\* "Return the maximum value (atan(1) = pi/4)"
AtanClamp(is_negative, input_fraction_bits) ==
    ApplySign(ConvertResult(kAtanLut[Len(kAtanLut)], input_fraction_bits), is_negative)
\* variant: t = idx_scaled, the integer part not masked off
AtanIndex_Unmasked(x) ==
    LET scale == Len(kAtanLut) - 1
        idx_scaled == Fixed64Mul(x, ShiftLeft(scale, kOutputFractionBits), kOutputFractionBits)
    IN  [idx |-> ShiftRight(idx_scaled, kOutputFractionBits), t |-> idx_scaled]

\* "Scale x to table index": idx_scaled, idx and the fractional part t
AtanIndex(x) ==
    LET scale == Len(kAtanLut) - 1
        idx_scaled == Fixed64Mul(x, ShiftLeft(scale, kOutputFractionBits), kOutputFractionBits)
    IN  [idx |-> ShiftRight(idx_scaled, kOutputFractionBits), t |-> idx_scaled % kOne]

\* y0 + t * (y1 - y0)
AtanLinear(idx, t) ==
    LET y0 == kAtanLut[idx + 1]
        y1 == kAtanLut[idx + 2]
    IN  Wrap(y0 + Fixed64Mul(y1 - y0, t, kOutputFractionBits))
\* variant: the coefficients taken in the opposite order, ((d*t + c)*t + b)*t + a
Horner_Reversed(a, b, c, d, t) ==
    Wrap(a + Fixed64Mul(t,
                        Wrap(b + Fixed64Mul(t, Wrap(c + Fixed64Mul(t, d, kOutputFractionBits)),
                                            kOutputFractionBits)),
                        kOutputFractionBits))

\* ((a*t + b)*t + c)*t + d
Horner(a, b, c, d, t) ==
    Wrap(d + Fixed64Mul(t,
                        Wrap(c + Fixed64Mul(t, Wrap(b + Fixed64Mul(t, a, kOutputFractionBits)),
                                            kOutputFractionBits)),
                        kOutputFractionBits))

HermiteA(p0, p1, m0, m1) == Wrap((p0 - p1) * 2 + m0 + m1)

HermiteB(p0, p1, m0, m1) == Wrap(-(p0 - p1) * 3 - m0 * 2 - m1)

\* "5. Compute derivatives using the fact that atan'(x) = 1/(1+x^2)", "Scale
\* derivatives by step size": m0_scaled and m1_scaled
AtanDerivatives(idx) ==
    LET scale == Len(kAtanLut) - 1
        p0 == kAtanLut[idx + 1]
        p1 == kAtanLut[idx + 2]
        x0 == Fixed64Div(ShiftLeft(idx, kOutputFractionBits), scale, kOutputFractionBits)
        x1 == Fixed64Div(ShiftLeft(idx + 1, kOutputFractionBits), scale, kOutputFractionBits)
        x0_squared == Fixed64Mul(x0, x0, kOutputFractionBits)
        x1_squared == Fixed64Mul(x1, x1, kOutputFractionBits)
        m0 == Fixed64Div(kOne, Wrap(kOne + x0_squared), kOutputFractionBits)
        m1 == Fixed64Div(kOne, Wrap(kOne + x1_squared), kOutputFractionBits)
        step_size == p1 - p0
    IN  [m0_scaled |-> Fixed64Mul(m0, step_size, kOutputFractionBits),
         m1_scaled |-> Fixed64Mul(m1, step_size, kOutputFractionBits)]

AtanHermite(idx, t) ==
    LET p0 == kAtanLut[idx + 1]
        p1 == kAtanLut[idx + 2]
        m == AtanDerivatives(idx)
    IN  Horner(HermiteA(p0, p1, m.m0_scaled, m.m1_scaled), HermiteB(p0, p1, m.m0_scaled, m.m1_scaled),
               m.m0_scaled, p0, t)

LookupAtanFast(x0, input_fraction_bits) ==
    LET is_negative == x0 < 0
        N == Len(kAtanLut)
    IN
    IF x0 = INT64_MIN THEN Undefined(TRUE, x0, 0, {})          \* x = -x overflows
    ELSE
    LET x == ConvertInput(IF is_negative THEN -x0 ELSE x0, input_fraction_bits)
        i == AtanIndex(x)
    IN
    IF x <= 0 THEN Outcome(0, "zero", is_negative, x, 0, 0, {})
    ELSE IF x >= kOne
    THEN Outcome(AtanClamp(is_negative, input_fraction_bits), "clamp", is_negative, x, 0, 0, {N - 1})
    ELSE IF i.idx >= N - 1
    THEN Outcome(AtanClamp(is_negative, input_fraction_bits), "idxclamp", is_negative, x,
                 i.idx, i.t, {N - 1})
    ELSE Outcome(ApplySign(ConvertResult(AtanLinear(i.idx, i.t), input_fraction_bits), is_negative),
                 "interp", is_negative, x, i.idx, i.t, {i.idx, i.idx + 1})

LookupAtan(x0, input_fraction_bits) ==
    LET is_negative == x0 < 0
        N == Len(kAtanLut)
    IN
    IF x0 = INT64_MIN THEN Undefined(TRUE, x0, 0, {})          \* x = -x overflows
    ELSE
    LET x == ConvertInput(IF is_negative THEN -x0 ELSE x0, input_fraction_bits)
        i == AtanIndex(x)
    IN
    IF x <= 0 THEN Outcome(0, "zero", is_negative, x, 0, 0, {})
    ELSE IF x >= kOne
    THEN Outcome(AtanClamp(is_negative, input_fraction_bits), "clamp", is_negative, x, 0, 0, {N - 1})
    ELSE IF i.idx >= N - 1
    THEN Outcome(AtanClamp(is_negative, input_fraction_bits), "idxclamp", is_negative, x,
                 i.idx, i.t, {N - 1})
    ELSE Outcome(ApplySign(ConvertResult(AtanHermite(i.idx, i.t), input_fraction_bits), is_negative),
                 "interp", is_negative, x, i.idx, i.t, {i.idx, i.idx + 1})

(***************************************************************************)
(* generate_sin_lut.py with fraction_bits = 10                             *)
(***************************************************************************)
lut_size == 512

\* int(sin(i * (pi/2) / (lut_size - 1)) * scale)
kSinLut == <<
    0, 3, 6, 9, 12, 15, 18, 22, 25, 28, 31, 34, 37, 40, 44, 47,
    50, 53, 56, 59, 62, 66, 69, 72, 75, 78, 81, 84, 88, 91, 94, 97,
    100, 103, 106, 109, 113, 116, 119, 122, 125, 128, 131, 134, 138, 141, 144, 147,
    150, 153, 156, 159, 162, 166, 169, 172, 175, 178, 181, 184, 187, 190, 193, 197,
    200, 203, 206, 209, 212, 215, 218, 221, 224, 227, 230, 233, 237, 240, 243, 246,
    249, 252, 255, 258, 261, 264, 267, 270, 273, 276, 279, 282, 285, 288, 291, 294,
    297, 300, 303, 306, 309, 312, 315, 318, 321, 324, 327, 330, 333, 336, 339, 342,
    345, 348, 351, 354, 357, 360, 363, 366, 369, 372, 375, 378, 380, 383, 386, 389,
    392, 395, 398, 401, 404, 407, 409, 412, 415, 418, 421, 424, 427, 430, 432, 435,
    438, 441, 444, 447, 449, 452, 455, 458, 461, 464, 466, 469, 472, 475, 478, 480,
    483, 486, 489, 491, 494, 497, 500, 502, 505, 508, 511, 513, 516, 519, 521, 524,
    527, 530, 532, 535, 538, 540, 543, 546, 548, 551, 554, 556, 559, 562, 564, 567,
    569, 572, 575, 577, 580, 582, 585, 588, 590, 593, 595, 598, 600, 603, 605, 608,
    611, 613, 616, 618, 621, 623, 626, 628, 631, 633, 635, 638, 640, 643, 645, 648,
    650, 653, 655, 657, 660, 662, 665, 667, 669, 672, 674, 677, 679, 681, 684, 686,
    688, 691, 693, 695, 698, 700, 702, 704, 707, 709, 711, 713, 716, 718, 720, 722,
    725, 727, 729, 731, 734, 736, 738, 740, 742, 744, 747, 749, 751, 753, 755, 757,
    759, 761, 764, 766, 768, 770, 772, 774, 776, 778, 780, 782, 784, 786, 788, 790,
    792, 794, 796, 798, 800, 802, 804, 806, 808, 810, 812, 814, 816, 817, 819, 821,
    823, 825, 827, 829, 831, 832, 834, 836, 838, 840, 841, 843, 845, 847, 849, 850,
    852, 854, 855, 857, 859, 861, 862, 864, 866, 867, 869, 871, 872, 874, 876, 877,
    879, 880, 882, 884, 885, 887, 888, 890, 892, 893, 895, 896, 898, 899, 901, 902,
    904, 905, 907, 908, 909, 911, 912, 914, 915, 917, 918, 919, 921, 922, 923, 925,
    926, 927, 929, 930, 931, 933, 934, 935, 937, 938, 939, 940, 942, 943, 944, 945,
    946, 948, 949, 950, 951, 952, 953, 955, 956, 957, 958, 959, 960, 961, 962, 963,
    964, 966, 967, 968, 969, 970, 971, 972, 973, 974, 975, 975, 976, 977, 978, 979,
    980, 981, 982, 983, 984, 985, 985, 986, 987, 988, 989, 990, 990, 991, 992, 993,
    993, 994, 995, 996, 996, 997, 998, 999, 999, 1000, 1001, 1001, 1002, 1002, 1003, 1004,
    1004, 1005, 1006, 1006, 1007, 1007, 1008, 1008, 1009, 1009, 1010, 1010, 1011, 1011, 1012, 1012,
    1013, 1013, 1014, 1014, 1015, 1015, 1015, 1016, 1016, 1017, 1017, 1017, 1018, 1018, 1018, 1019,
    1019, 1019, 1019, 1020, 1020, 1020, 1020, 1021, 1021, 1021, 1021, 1022, 1022, 1022, 1022, 1022,
    1022, 1023, 1023, 1023, 1023, 1023, 1023, 1023, 1023, 1023, 1023, 1023, 1023, 1023, 1023, 1024 >>

\* int(pi/2 * scale)
kPiOver2 == 1608

\* int(2 * pi * scale)
kTwoPi == 6433

\* int((lut_size - 1) / float(pi/2) * scale)
kLutInterval == 333120
\* the reduction without the "if (x < 0) x += kTwoPi" step
SinReduce_Unwrapped(x0) ==
    LET x1 == CRem(x0, kTwoPi)
        flip_sign == x1 > kPi
        x2 == IF flip_sign THEN x1 - kPi ELSE x1
        x3 == IF x2 > kPiOver2 THEN kPi - x2 ELSE x2
    IN  [x |-> x3, flip_sign |-> flip_sign]

\* "Normalize angle to [0, 2*pi)", "Determine quadrant and map to [0, pi/2]"
SinReduce(x0) ==
    LET r  == CRem(x0, kTwoPi)
        x1 == IF r < 0 THEN r + kTwoPi ELSE r
        flip_sign == x1 > kPi
        x2 == IF flip_sign THEN x1 - kPi ELSE x1
        x3 == IF x2 > kPiOver2 THEN kPi - x2 ELSE x2
    IN  [x |-> x3, flip_sign |-> flip_sign]

\* "Calculate lookup table index and fractional part", "Clamp index to valid range"
SinIndex(x) ==
    LET idx_scaled == Fixed64Mul(x, kLutInterval, kOutputFractionBits)
        idx == ShiftRight(idx_scaled, kOutputFractionBits)
        frac == idx_scaled % kOne
    IN  IF idx < 0 THEN [idx |-> 0, t |-> 0]
        ELSE IF idx >= Len(kSinLut) - 1 THEN [idx |-> Len(kSinLut) - 2, t |-> kOne - 1]
        ELSE [idx |-> idx, t |-> frac]

SinLinear(idx, frac) ==
    LET y0 == kSinLut[idx + 1]
        y1 == kSinLut[idx + 2]
        diff == y1 - y0
    IN  Wrap(y0 + Fixed64Mul(diff, frac, kOutputFractionBits))

SinStepSize == Fixed64Div(kPiOver2, ShiftLeft(Len(kSinLut) - 1, kOutputFractionBits), kOutputFractionBits)

SinHermite(idx, t) ==
    LET p0 == kSinLut[idx + 1]
        p1 == kSinLut[idx + 2]
        cos_idx == Len(kSinLut) - 1 - idx
        m0 == Fixed64Mul(kSinLut[cos_idx + 1], SinStepSize, kOutputFractionBits)
        m1 == Fixed64Mul(IF cos_idx > 0 THEN kSinLut[cos_idx] ELSE 0, SinStepSize, kOutputFractionBits)
    IN  Horner(HermiteA(p0, p1, m0, m1), HermiteB(p0, p1, m0, m1), m0, p0, t)

\* "Apply sign flip if necessary", "Convert result back to original input format"
SinFinish(value, flip_sign, input_fraction_bits) ==
    ConvertResult(IF flip_sign THEN Wrap(-value) ELSE value, input_fraction_bits)

LookupSinFast(x0, input_fraction_bits) ==
    LET r == SinReduce(ConvertInput(x0, input_fraction_bits))
        i == SinIndex(r.x)
    IN  Outcome(SinFinish(SinLinear(i.idx, i.t), r.flip_sign, input_fraction_bits),
                "interp", r.flip_sign, r.x, i.idx, i.t, {i.idx, i.idx + 1})

LookupSin(x0, input_fraction_bits) ==
    LET r == SinReduce(ConvertInput(x0, input_fraction_bits))
        i == SinIndex(r.x)
        cos_idx == Len(kSinLut) - 1 - i.idx
    IN  Outcome(SinFinish(SinHermite(i.idx, i.t), r.flip_sign, input_fraction_bits),
                "interp", r.flip_sign, r.x, i.idx, i.t,
                {i.idx, i.idx + 1, cos_idx} \cup (IF cos_idx > 0 THEN {cos_idx - 1} ELSE {}))

(***************************************************************************)
(* generate_log2_lut.py with fraction_bits = 10, table_size = 16           *)
(***************************************************************************)
\* int(log2(1 + i / (table_size - 1)) * scale)
kLog2Lut == <<0, 95, 184, 269, 349, 424, 497, 565, 631, 694, 754, 812, 868, 922, 973, 1024>>

\* int(ln(2) * scale)
kLn2 == 709

\* 63 - CountlZero(x): the position of the most significant set bit of x > 0
RECURSIVE MostSignificantBit(_)
MostSignificantBit(x) == IF x <= 1 THEN 0 ELSE 1 + MostSignificantBit(x \div 2)

\* variant: msb = 64 - CountlZero(x)
Log2Normalize_MsbOffByOne(x) ==
    LET msb == MostSignificantBit(x) + 1
        shift == msb - kOutputFractionBits
    IN  IF shift > 0 THEN [mantissa |-> ShiftRight(x, shift), exponent |-> shift]
        ELSE IF shift < 0 THEN [mantissa |-> ShiftLeft(x, -shift), exponent |-> shift]
        ELSE [mantissa |-> x, exponent |-> 0]

\* "Normalize x to [1,2) range using bit operations"
Log2Normalize(x) ==
    LET msb == MostSignificantBit(x)
        shift == msb - kOutputFractionBits
    IN  IF shift > 0 THEN [mantissa |-> ShiftRight(x, shift), exponent |-> shift]
        ELSE IF shift < 0 THEN [mantissa |-> ShiftLeft(x, -shift), exponent |-> shift]
        ELSE [mantissa |-> x, exponent |-> 0]

\* "Calculate lookup table index and fractional part", "Clamp index to valid range"
Log2Index(mantissa) ==
    LET n == Len(kLog2Lut)
        p == Wrap((mantissa - kOne) * (n - 1))
        idx == ShiftRight(p, kOutputFractionBits)
    IN  IF idx < 0 THEN [idx |-> 0, t |-> 0]
        ELSE IF idx >= n - 1 THEN [idx |-> n - 2, t |-> kOne - 1]
        ELSE [idx |-> idx, t |-> p % kOne]

Log2Linear(idx, t) ==
    LET p0 == kLog2Lut[idx + 1]
        p1 == kLog2Lut[idx + 2]
    IN  Wrap(p0 + Fixed64Mul(p1 - p0, t, kOutputFractionBits))

Log2StepSize ==
    Fixed64Div(kOne, ShiftLeft(Len(kLog2Lut) - 1, kOutputFractionBits), kOutputFractionBits)

Log2Hermite(idx, t) ==
    LET n == Len(kLog2Lut)
        p0 == kLog2Lut[idx + 1]
        p1 == kLog2Lut[idx + 2]
        x_at_idx == kOne + (ShiftLeft(idx, kOutputFractionBits) \div (n - 1))
        x_at_next == kOne + (ShiftLeft(idx + 1, kOutputFractionBits) \div (n - 1))
        d0 == Fixed64Div(kOne, Fixed64Mul(x_at_idx, kLn2, kOutputFractionBits), kOutputFractionBits)
        d1 == Fixed64Div(kOne, Fixed64Mul(x_at_next, kLn2, kOutputFractionBits), kOutputFractionBits)
        m0 == Fixed64Mul(d0, Log2StepSize, kOutputFractionBits)
        m1 == Fixed64Mul(d1, Log2StepSize, kOutputFractionBits)
    IN  Horner(HermiteA(p0, p1, m0, m1), HermiteB(p0, p1, m0, m1), m0, p0, t)
\* variant: the exponent part is not added
Log2Finish_ExponentDropped(interpolated_value, exponent, input_fraction_bits) ==
    ConvertResult(interpolated_value, input_fraction_bits)

\* "Add exponent part", "Convert result back to original input format"
Log2Finish(interpolated_value, exponent, input_fraction_bits) ==
    ConvertResult(Wrap(interpolated_value + ShiftLeft(exponent, kOutputFractionBits)),
                  input_fraction_bits)

Log2Outcome(x, n, i, interpolated_value, input_fraction_bits) ==
    [Outcome(Log2Finish(interpolated_value, n.exponent, input_fraction_bits),
             "interp", FALSE, x, i.idx, i.t, {i.idx, i.idx + 1})
     EXCEPT !.exponent = n.exponent, !.mantissa = n.mantissa, !.interp = interpolated_value]

LookupLog2Fast(x0, input_fraction_bits) ==
    LET x == ConvertInput(x0, input_fraction_bits)
        n == Log2Normalize(x)
        i == Log2Index(n.mantissa)
    IN  IF x <= 0 THEN Outcome(INT64_MIN, "sentinel", FALSE, x, 0, 0, {})
        ELSE Log2Outcome(x, n, i, Log2Linear(i.idx, i.t), input_fraction_bits)

LookupLog2(x0, input_fraction_bits) ==
    LET x == ConvertInput(x0, input_fraction_bits)
        n == Log2Normalize(x)
        i == Log2Index(n.mantissa)
    IN  IF x <= 0 THEN Outcome(INT64_MIN, "sentinel", FALSE, x, 0, 0, {})
        ELSE Log2Outcome(x, n, i, Log2Hermite(i.idx, i.t), input_fraction_bits)

(***************************************************************************)
(* generate_tan_lut.py with int_bits = WordBits - 1 - fraction_bits and    *)
(* fraction_bits = 10; kPi, kPiOver2 and kLutInterval are emitted with the *)
(* values of generate_sin_lut.py                                           *)
(***************************************************************************)
\* int(tan(i * (pi/2) / (lut_size - 1)) * scale); the last entry, tan(pi/2),
\* is capped at max_value, the largest word
kTanLut == <<
    0, 3, 6, 9, 12, 15, 18, 22, 25, 28, 31, 34, 37, 40, 44, 47,
    50, 53, 56, 59, 63, 66, 69, 72, 75, 78, 82, 85, 88, 91, 94, 97,
    101, 104, 107, 110, 113, 116, 120, 123, 126, 129, 132, 136, 139, 142, 145, 148,
    152, 155, 158, 161, 165, 168, 171, 174, 178, 181, 184, 187, 191, 194, 197, 200,
    204, 207, 210, 213, 217, 220, 223, 227, 230, 233, 237, 240, 243, 247, 250, 253,
    257, 260, 263, 267, 270, 273, 277, 280, 283, 287, 290, 294, 297, 300, 304, 307,
    311, 314, 318, 321, 325, 328, 332, 335, 338, 342, 345, 349, 353, 356, 360, 363,
    367, 370, 374, 377, 381, 385, 388, 392, 395, 399, 403, 406, 410, 414, 417, 421,
    425, 428, 432, 436, 439, 443, 447, 451, 454, 458, 462, 466, 470, 473, 477, 481,
    485, 489, 493, 497, 500, 504, 508, 512, 516, 520, 524, 528, 532, 536, 540, 544,
    548, 552, 556, 560, 564, 569, 573, 577, 581, 585, 589, 594, 598, 602, 606, 610,
    615, 619, 623, 628, 632, 636, 641, 645, 650, 654, 658, 663, 667, 672, 676, 681,
    685, 690, 695, 699, 704, 708, 713, 718, 723, 727, 732, 737, 742, 746, 751, 756,
    761, 766, 771, 776, 781, 786, 791, 796, 801, 806, 811, 816, 821, 826, 832, 837,
    842, 847, 853, 858, 864, 869, 874, 880, 885, 891, 896, 902, 908, 913, 919, 925,
    930, 936, 942, 948, 954, 959, 965, 971, 977, 983, 989, 996, 1002, 1008, 1014, 1020,
    1027, 1033, 1039, 1046, 1052, 1059, 1065, 1072, 1078, 1085, 1092, 1099, 1105, 1112, 1119, 1126,
    1133, 1140, 1147, 1154, 1161, 1169, 1176, 1183, 1191, 1198, 1206, 1213, 1221, 1228, 1236, 1244,
    1252, 1260, 1267, 1275, 1284, 1292, 1300, 1308, 1316, 1325, 1333, 1342, 1350, 1359, 1368, 1377,
    1385, 1394, 1403, 1413, 1422, 1431, 1440, 1450, 1459, 1469, 1479, 1488, 1498, 1508, 1518, 1528,
    1538, 1549, 1559, 1570, 1580, 1591, 1602, 1613, 1624, 1635, 1646, 1657, 1669, 1680, 1692, 1704,
    1716, 1728, 1740, 1752, 1765, 1777, 1790, 1803, 1816, 1829, 1842, 1856, 1869, 1883, 1897, 1911,
    1925, 1939, 1954, 1969, 1984, 1999, 2014, 2029, 2045, 2061, 2077, 2093, 2109, 2126, 2143, 2160,
    2177, 2194, 2212, 2230, 2248, 2267, 2286, 2305, 2324, 2343, 2363, 2383, 2403, 2424, 2445, 2466,
    2488, 2510, 2532, 2555, 2577, 2601, 2624, 2648, 2673, 2698, 2723, 2748, 2775, 2801, 2828, 2855,
    2883, 2912, 2940, 2970, 3000, 3030, 3061, 3093, 3125, 3158, 3191, 3225, 3260, 3295, 3331, 3368,
    3406, 3444, 3483, 3523, 3564, 3606, 3649, 3692, 3737, 3782, 3829, 3877, 3926, 3976, 4027, 4079,
    4133, 4188, 4245, 4303, 4362, 4423, 4486, 4550, 4617, 4685, 4755, 4827, 4901, 4977, 5056, 5137,
    5221, 5307, 5396, 5488, 5584, 5682, 5784, 5889, 5998, 6112, 6229, 6351, 6478, 6609, 6746, 6889,
    7038, 7193, 7355, 7524, 7701, 7887, 8081, 8285, 8500, 8726, 8964, 9215, 9480, 9761, 10059, 10376,
    10713, 11072, 11456, 11867, 12309, 12785, 13298, 13854, 14459, 15118, 15840, 16635, 17512, 18487, 19577, 20803,
    22192, 23779, 25610, 27747, 30272, 33301, 37003, 41631, 47581, 55513, 66618, 83275, 111036, 166558, 333119, INT64_MAX >>

\* v is a value of int64_t
InRange(v) == v >= INT64_MIN /\ v <= INT64_MAX

\* round(a * b / 2^fraction_bits) is a value of int64_t
MulInRange(a, b, fraction_bits) ==
    LET s  == 2^fraction_bits
        ah == a \div s
        al == a % s
        bh == b \div s
        bl == b % s
        low == ah * bl + al * bh + (al * bl + 2^(fraction_bits - 1)) \div s
    IN  /\ ah * bh <= (INT64_MAX - low) \div s
        /\ ah * bh >= -((low - INT64_MIN) \div s)

\* "1. Normalize angle to [-pi, pi]", "2. Handle negative angles",
\* "3. Handle angles > pi/2 by using tan(pi-x) = -tan(x)"
TanReduce(x0) ==
    LET r  == CRem(x0, kPi)
        negative == r < 0
        x1 == IF negative THEN -r ELSE r
        above == x1 > kPiOver2
    IN  [x |-> IF above THEN kPi - x1 ELSE x1, flip |-> (negative # above)]

\* "4. Calculate lookup table index and fractional part", "5. Clamp index to valid range"
TanIndex(x) ==
    LET idx_scaled == Fixed64Mul(x, kLutInterval, kOutputFractionBits)
        idx == ShiftRight(idx_scaled, kOutputFractionBits)
        frac == idx_scaled % kOne
    IN  IF idx < 0 THEN [idx |-> 0, t |-> 0]
        ELSE IF idx >= Len(kTanLut) - 1 THEN [idx |-> Len(kTanLut) - 2, t |-> kOne - 1]
        ELSE [idx |-> idx, t |-> frac]

\* "6. Linear interpolation between table entries"
TanLinear(idx, frac) ==
    LET y0 == kTanLut[idx + 1]
        y1 == kTanLut[idx + 2]
        diff == y1 - y0
    IN  Wrap(y0 + Fixed64Mul(diff, frac, kOutputFractionBits))

TanStepSize == Fixed64Div(kPiOver2, ShiftLeft(Len(kTanLut) - 1, kOutputFractionBits), kOutputFractionBits)

\* "7. Compute derivatives", "Scale derivatives by step size", "8. Compute
\* optimized Hermite coefficients", "9. Compute interpolation using Horner's
\* method".  overflow: one of p0_squared, p1_squared, m0, m1, the scaled m0,
\* m1, a, b is not the mathematical value; undefined: an addition,
\* subtraction or multiplication of int64_t overflowed.
TanHermite(idx, t) ==
    LET p0 == kTanLut[idx + 1]
        p1 == kTanLut[idx + 2]
        p0_squared == Fixed64Mul(p0, p0, kOutputFractionBits)
        p1_squared == Fixed64Mul(p1, p1, kOutputFractionBits)
        m0 == Wrap(kOne + p0_squared)
        m1 == Wrap(kOne + p1_squared)
        m0_scaled == Fixed64Mul(m0, TanStepSize, kOutputFractionBits)
        m1_scaled == Fixed64Mul(m1, TanStepSize, kOutputFractionBits)
        p0_minus_p1 == p0 - p1
        a == HermiteA(p0, p1, m0_scaled, m1_scaled)
        b == HermiteB(p0, p1, m0_scaled, m1_scaled)
        inner == Wrap(b + Fixed64Mul(t, a, kOutputFractionBits))
        outer == Wrap(m0_scaled + Fixed64Mul(t, inner, kOutputFractionBits))
        products ==
            /\ MulInRange(p0, p0, kOutputFractionBits)
            /\ MulInRange(p1, p1, kOutputFractionBits)
            /\ MulInRange(m0, TanStepSize, kOutputFractionBits)
            /\ MulInRange(m1, TanStepSize, kOutputFractionBits)
        sums ==
            /\ InRange(kOne + p0_squared)
            /\ InRange(kOne + p1_squared)
        coefficients ==
            /\ InRange(p0_minus_p1 * 2)
            /\ InRange(p0_minus_p1 * 2 + m0_scaled)
            /\ InRange(p0_minus_p1 * 2 + m0_scaled + m1_scaled)
            /\ InRange(-p0_minus_p1 * 3)
            /\ InRange(m0_scaled * 2)
            /\ InRange(-p0_minus_p1 * 3 - m0_scaled * 2)
            /\ InRange(-p0_minus_p1 * 3 - m0_scaled * 2 - m1_scaled)
        horner ==
            /\ InRange(b + Fixed64Mul(t, a, kOutputFractionBits))
            /\ InRange(m0_scaled + Fixed64Mul(t, inner, kOutputFractionBits))
            /\ InRange(p0 + Fixed64Mul(t, outer, kOutputFractionBits))
    IN  [value |-> Horner(a, b, m0_scaled, p0, t),
         overflow |-> ~(products /\ sums /\ coefficients),
         undefined |-> ~(sums /\ coefficients /\ horner)]

LookupTanFast(x0, input_fraction_bits) ==
    LET r == TanReduce(ConvertInput(x0, input_fraction_bits))
        i == TanIndex(r.x)
        interpolated_value == TanLinear(i.idx, i.t)
        result == IF r.flip THEN Wrap(-interpolated_value) ELSE interpolated_value
    IN  Outcome(ConvertResult(result, input_fraction_bits),
                "interp", r.flip, r.x, i.idx, i.t, {i.idx, i.idx + 1})

LookupTan(x0, input_fraction_bits) ==
    LET r == TanReduce(ConvertInput(x0, input_fraction_bits))
        i == TanIndex(r.x)
        h == TanHermite(i.idx, i.t)
        result == IF r.flip THEN Wrap(-h.value) ELSE h.value
    IN  IF h.undefined \/ (r.flip /\ h.value = INT64_MIN)
        THEN [Undefined(r.flip, r.x, i.idx, {i.idx, i.idx + 1})
              EXCEPT !.t = i.t, !.overflow = h.overflow]
        ELSE [Outcome(ConvertResult(result, input_fraction_bits),
                      "interp", r.flip, r.x, i.idx, i.t, {i.idx, i.idx + 1})
              EXCEPT !.overflow = h.overflow]

(***************************************************************************)
(* Table generation: every generator computes the reference value of an    *)
(* entry with mpmath and converts it with int(value * scale).  A reference *)
(* is carried here as the integer floor(value * scale * 2^guard): the      *)
(* scaled value with guard binary digits behind the point.                 *)
(***************************************************************************)
\* binary digits the references keep behind the unit of the table
GuardBits == 6

\* variant: round(value * scale)
int_Rounded(scaled, guard) == (scaled + 2^(guard - 1)) \div 2^guard

\* Python int() of value * scale: the fraction is cut off, toward zero
int(scaled, guard) ==
    IF scaled >= 0 THEN scaled \div 2^guard ELSE -((-scaled) \div 2^guard)

\* "Cap extremely large values": max_value is (2^int_bits - 1) +
\* (2^fraction_bits - 1) / scale
TanCapped(tan_x) ==
    LET max_value == INT64_MAX * 2^GuardBits
    IN  IF tan_x > max_value THEN max_value ELSE tan_x

\* float(): the nearest value with the significant digits of a double, 28 at
\* the scale of the model, ties to the even one
float(v) ==
    LET digits == MostSignificantBit(v) + 1
        drop   == digits - 28
        q      == v \div 2^drop
        r      == v % 2^drop
        half   == 2^(drop - 1)
    IN  IF v = 0 \/ drop <= 0 THEN v
        ELSE IF r > half \/ (r = half /\ q % 2 = 1) THEN (q + 1) * 2^drop
        ELSE q * 2^drop

\* binary digits behind the unit of the table: kAtan2LUT is generated with 16
\* fraction bits and its references carry 14 more
Guard(table) == IF table = "kAtan2LUT" THEN 14 ELSE GuardBits

\* the mpmath values a generator converts: mp.acos(x) at the Chebyshev nodes,
\* the nodes (cos(pi * (2 * i + 1) / (2 * entries)) + 1) / 2 in ascending
\* order, mp.atan(i / (entries - 1)), mp.sin(i * angle_step),
\* mp.log(1 + i * step) / mp.log(2), mp.tan(i * angle_step) (the last angle is
\* the rounded pi / 2, where the tangent is beyond every word and is recorded
\* as 2^30), mp.atan(x) for np.linspace(0, 1, 256), mp.atan(1 / 2^i) scaled by
\* 2^23
Reference(table) ==
    CASE table = "kAcosLut" -> <<
            102314, 97414, 88258, 75798, 60972, 44542, 27096, 9091>>
      [] table = "kAcosXValues" -> <<
            629, 5522, 14563, 26375, 39160, 50972, 60013, 64906>>
      [] table = "kAtanLut" -> <<
            0, 9299, 18238, 26534, 34022, 40648, 46440, 51471>>
      [] table = "kLog2Lut" -> <<
            0, 6102, 11833, 17238, 22350, 27199, 31812, 36211,
            40414, 44438, 48297, 52006, 55574, 59012, 62330, 65536>>
      [] table = "kSinLut" -> <<
            0, 201, 402, 604, 805, 1007, 1208, 1410, 1611, 1812,
            2014, 2215, 2416, 2618, 2819, 3020, 3221, 3423, 3624,
            3825, 4026, 4227, 4428, 4629, 4830, 5031, 5232, 5433,
            5633, 5834, 6035, 6235, 6436, 6636, 6837, 7037, 7237,
            7437, 7637, 7837, 8037, 8237, 8437, 8637, 8837, 9036,
            9236, 9435, 9634, 9834, 10033, 10232, 10431, 10629,
            10828, 11027, 11225, 11424, 11622, 11820, 12018,
            12216, 12414, 12612, 12810, 13007, 13205, 13402,
            13599, 13796, 13993, 14190, 14386, 14583, 14779,
            14975, 15171, 15367, 15563, 15759, 15954, 16149,
            16344, 16539, 16734, 16929, 17124, 17318, 17512,
            17706, 17900, 18094, 18287, 18481, 18674, 18867,
            19060, 19252, 19445, 19637, 19829, 20021, 20213,
            20404, 20596, 20787, 20978, 21169, 21359, 21550,
            21740, 21930, 22119, 22309, 22498, 22687, 22876,
            23065, 23253, 23442, 23630, 23817, 24005, 24192,
            24379, 24566, 24753, 24939, 25126, 25312, 25497,
            25683, 25868, 26053, 26238, 26422, 26606, 26790,
            26974, 27157, 27341, 27524, 27706, 27889, 28071,
            28253, 28435, 28616, 28797, 28978, 29158, 29339,
            29519, 29698, 29878, 30057, 30236, 30414, 30593,
            30771, 30948, 31126, 31303, 31480, 31656, 31833,
            32009, 32184, 32360, 32535, 32709, 32884, 33058,
            33232, 33405, 33578, 33751, 33924, 34096, 34268,
            34439, 34611, 34781, 34952, 35122, 35292, 35462,
            35631, 35800, 35968, 36137, 36305, 36472, 36639,
            36806, 36973, 37139, 37305, 37470, 37635, 37800,
            37964, 38128, 38292, 38455, 38618, 38781, 38943,
            39105, 39266, 39428, 39588, 39749, 39909, 40068,
            40227, 40386, 40545, 40703, 40861, 41018, 41175,
            41331, 41487, 41643, 41799, 41954, 42108, 42262,
            42416, 42569, 42722, 42875, 43027, 43179, 43330,
            43481, 43632, 43782, 43931, 44081, 44230, 44378,
            44526, 44674, 44821, 44968, 45114, 45260, 45405,
            45550, 45695, 45839, 45983, 46126, 46269, 46412,
            46554, 46695, 46836, 46977, 47117, 47257, 47396,
            47535, 47674, 47812, 47949, 48086, 48223, 48359,
            48495, 48630, 48765, 48899, 49033, 49167, 49300,
            49432, 49564, 49696, 49827, 49958, 50088, 50217,
            50347, 50475, 50604, 50731, 50859, 50985, 51112,
            51238, 51363, 51488, 51612, 51736, 51860, 51982,
            52105, 52227, 52348, 52469, 52590, 52710, 52829,
            52948, 53067, 53185, 53302, 53419, 53535, 53651,
            53767, 53882, 53996, 54110, 54223, 54336, 54449,
            54561, 54672, 54783, 54893, 55003, 55112, 55221,
            55329, 55437, 55544, 55651, 55757, 55862, 55967,
            56072, 56176, 56279, 56382, 56485, 56587, 56688,
            56789, 56889, 56989, 57088, 57187, 57285, 57382,
            57480, 57576, 57672, 57767, 57862, 57957, 58050,
            58144, 58236, 58328, 58420, 58511, 58601, 58691,
            58781, 58869, 58958, 59045, 59133, 59219, 59305,
            59391, 59475, 59560, 59644, 59727, 59809, 59891,
            59973, 60054, 60134, 60214, 60293, 60372, 60450,
            60528, 60605, 60681, 60757, 60832, 60907, 60981,
            61054, 61127, 61199, 61271, 61342, 61413, 61483,
            61553, 61621, 61690, 61757, 61824, 61891, 61957,
            62022, 62087, 62151, 62215, 62278, 62340, 62402,
            62463, 62524, 62584, 62644, 62703, 62761, 62819,
            62876, 62932, 62988, 63043, 63098, 63152, 63206,
            63259, 63311, 63363, 63414, 63465, 63514, 63564,
            63613, 63661, 63708, 63755, 63802, 63847, 63892,
            63937, 63981, 64024, 64067, 64109, 64150, 64191,
            64232, 64271, 64310, 64349, 64387, 64424, 64461,
            64497, 64532, 64567, 64601, 64635, 64668, 64700,
            64732, 64763, 64793, 64823, 64853, 64881, 64909,
            64937, 64964, 64990, 65016, 65041, 65065, 65089,
            65112, 65135, 65157, 65178, 65199, 65219, 65238,
            65257, 65275, 65293, 65310, 65326, 65342, 65357,
            65372, 65386, 65399, 65412, 65424, 65435, 65446,
            65456, 65466, 65475, 65483, 65491, 65498, 65505,
            65510, 65516, 65520, 65524, 65528, 65531, 65533,
            65534, 65535, 65536>>
      [] table = "kTanLut" -> <<
            0, 201, 402, 604, 805, 1007, 1208, 1410, 1611, 1813,
            2015, 2216, 2418, 2620, 2822, 3023, 3225, 3427, 3629,
            3832, 4034, 4236, 4438, 4641, 4843, 5046, 5249, 5451,
            5654, 5857, 6060, 6264, 6467, 6670, 6874, 7078, 7282,
            7486, 7690, 7894, 8099, 8303, 8508, 8713, 8918, 9123,
            9329, 9534, 9740, 9946, 10152, 10359, 10565, 10772,
            10979, 11186, 11394, 11601, 11809, 12017, 12226,
            12434, 12643, 12852, 13062, 13271, 13481, 13691,
            13902, 14112, 14323, 14534, 14746, 14958, 15170,
            15382, 15595, 15808, 16021, 16235, 16449, 16663,
            16878, 17093, 17308, 17524, 17740, 17956, 18173,
            18390, 18608, 18826, 19044, 19263, 19482, 19701,
            19921, 20141, 20362, 20583, 20805, 21026, 21249,
            21472, 21695, 21919, 22143, 22368, 22593, 22819,
            23045, 23271, 23498, 23726, 23954, 24183, 24412,
            24642, 24872, 25102, 25334, 25566, 25798, 26031,
            26264, 26499, 26733, 26969, 27204, 27441, 27678,
            27916, 28154, 28393, 28633, 28873, 29114, 29355,
            29597, 29840, 30084, 30328, 30573, 30819, 31065,
            31312, 31560, 31809, 32058, 32308, 32559, 32810,
            33063, 33316, 33570, 33824, 34080, 34336, 34593,
            34851, 35110, 35370, 35630, 35892, 36154, 36417,
            36682, 36947, 37213, 37479, 37747, 38016, 38286,
            38556, 38828, 39101, 39374, 39649, 39925, 40202,
            40479, 40758, 41038, 41319, 41601, 41884, 42169,
            42454, 42741, 43028, 43317, 43607, 43899, 44191,
            44485, 44780, 45076, 45373, 45672, 45972, 46273,
            46576, 46879, 47185, 47491, 47799, 48108, 48419,
            48731, 49045, 49360, 49676, 49994, 50314, 50635,
            50957, 51281, 51607, 51934, 52263, 52593, 52925,
            53259, 53594, 53931, 54270, 54610, 54953, 55297,
            55642, 55990, 56339, 56691, 57044, 57399, 57756,
            58115, 58476, 58838, 59203, 59570, 59939, 60310,
            60683, 61058, 61436, 61815, 62197, 62581, 62968,
            63356, 63747, 64140, 64536, 64934, 65334, 65737,
            66143, 66551, 66961, 67374, 67790, 68208, 68629,
            69053, 69479, 69909, 70341, 70776, 71214, 71654,
            72098, 72545, 72995, 73448, 73904, 74363, 74826,
            75291, 75760, 76233, 76708, 77188, 77670, 78156,
            78646, 79140, 79637, 80138, 80642, 81151, 81663,
            82179, 82699, 83224, 83752, 84285, 84821, 85362,
            85908, 86458, 87012, 87571, 88134, 88702, 89275,
            89853, 90436, 91023, 91616, 92214, 92817, 93425,
            94038, 94657, 95282, 95912, 96548, 97189, 97837,
            98490, 99150, 99815, 100487, 101166, 101850, 102542,
            103240, 103944, 104656, 105375, 106101, 106834,
            107574, 108322, 109078, 109842, 110613, 111392,
            112180, 112976, 113780, 114593, 115415, 116246,
            117086, 117935, 118794, 119662, 120540, 121428,
            122326, 123234, 124154, 125083, 126024, 126976,
            127940, 128915, 129902, 130901, 131912, 132936,
            133973, 135023, 136086, 137163, 138254, 139360,
            140479, 141614, 142764, 143929, 145110, 146307,
            147521, 148752, 150000, 151266, 152549, 153852,
            155173, 156514, 157874, 159255, 160656, 162079,
            163524, 164991, 166481, 167994, 169531, 171093,
            172681, 174294, 175934, 177601, 179296, 181019,
            182773, 184556, 186371, 188218, 190098, 192011,
            193960, 195944, 197965, 200024, 202121, 204259,
            206439, 208660, 210926, 213237, 215595, 218001,
            220457, 222964, 225524, 228139, 230810, 233540,
            236330, 239183, 242101, 245085, 248139, 251265,
            254466, 257744, 261102, 264543, 268071, 271689,
            275400, 279208, 283117, 287131, 291256, 295494,
            299851, 304333, 308945, 313692, 318581, 323618,
            328811, 334166, 339692, 345397, 351289, 357380,
            363677, 370194, 376940, 383930, 391176, 398693,
            406496, 414602, 423030, 431800, 440932, 450449,
            460378, 470745, 481580, 492915, 504788, 517236,
            530303, 544037, 558490, 573721, 589794, 606781,
            624764, 643833, 664090, 685649, 708640, 733213,
            759536, 787804, 818241, 851108, 886708, 925398,
            967599, 1013812, 1064641, 1120812, 1183218, 1252957,
            1331406, 1420305, 1521894, 1639103, 1775835, 1937415,
            2131297, 2368250, 2664424, 3045200, 3552879, 4263602,
            5329654, 7106362, 10659712, 21319626, 2^30>>
      [] table = "kAtan2LUT" -> <<
            0, 4210730, 8421331, 12631673, 16841627, 21051063,
            25259852, 29467865, 33674972, 37881046, 42085957,
            46289576, 50491777, 54692430, 58891408, 63088584,
            67283830, 71477021, 75668030, 79856730, 84042997,
            88226705, 92407730, 96585947, 100761234, 104933467,
            109102524, 113268282, 117430621, 121589419, 125744556,
            129895914, 134043373, 138186816, 142326124, 146461181,
            150591871, 154718080, 158839692, 162956594, 167068674,
            171175819, 175277918, 179374862, 183466540, 187552845,
            191633668, 195708904, 199778446, 203842190, 207900031,
            211951868, 215997598, 220037120, 224070336, 228097145,
            232117450, 236131155, 240138163, 244138381, 248131714,
            252118071, 256097359, 260069490, 264034373, 267991920,
            271942045, 275884662, 279819687, 283747035, 287666625,
            291578375, 295482206, 299378038, 303265793, 307145396,
            311016771, 314879843, 318734541, 322580790, 326418523,
            330247667, 334068157, 337879924, 341682902, 345477027,
            349262235, 353038464, 356805652, 360563741, 364312670,
            368052383, 371782822, 375503933, 379215662, 382917955,
            386610761, 390294029, 393967709, 397631754, 401286117,
            404930751, 408565611, 412190654, 415805837, 419411119,
            423006459, 426591819, 430167159, 433732444, 437287637,
            440832703, 444367608, 447892320, 451406808, 454911040,
            458404988, 461888622, 465361916, 468824842, 472277377,
            475719494, 479151171, 482572386, 485983117, 489383344,
            492773047, 496152207, 499520808, 502878833, 506226266,
            509563093, 512889298, 516204871, 519509798, 522804069,
            526087673, 529360600, 532622843, 535874394, 539115246,
            542345392, 545564827, 548773548, 551971550, 555158831,
            558335389, 561501221, 564656329, 567800711, 570934369,
            574057305, 577169521, 580271019, 583361805, 586441882,
            589511255, 592569930, 595617913, 598655213, 601681836,
            604697790, 607703086, 610697732, 613681738, 616655115,
            619617875, 622570030, 625511591, 628442573, 631362988,
            634272850, 637172174, 640060976, 642939270, 645807073,
            648664402, 651511273, 654347704, 657173713, 659989319,
            662794539, 665589394, 668373903, 671148086, 673911964,
            676665557, 679408888, 682141977, 684864846, 687577518,
            690280016, 692972363, 695654582, 698326697, 700988732,
            703640711, 706282660, 708914602, 711536564, 714148571,
            716750649, 719342824, 721925122, 724497570, 727060194,
            729613023, 732156083, 734689402, 737213008, 739726929,
            742231192, 744725828, 747210863, 749686327, 752152249,
            754608659, 757055585, 759493057, 761921105, 764339759,
            766749049, 769149004, 771539656, 773921034, 776293169,
            778656092, 781009834, 783354426, 785689898, 788016281,
            790333608, 792641909, 794941216, 797231560, 799512973,
            801785486, 804049131, 806303941, 808549946, 810787179,
            813015672, 815235456, 817446565, 819649029, 821842882,
            824028155, 826204881, 828373091, 830532819, 832684096,
            834826955, 836961428, 839087548, 841205346, 843314856>>
      [] table = "CordicTable" -> <<
            421657428, 248918914, 131521918, 66762579, 33510843,
            16771757, 8387925, 4194218, 2097141, 1048574, 524287,
            262143, 131071, 65535, 32767, 16383, 8191, 4095, 2047,
            1023, 511, 255, 127, 63, 31, 15, 7, 3, 1, 0, 0, 0>>

\* the table the generated header holds and the evaluators read
Emitted(table) ==
    CASE table = "kAcosLut"     -> kAcosLut
      [] table = "kAcosXValues" -> kAcosXValues
      [] table = "kAtanLut"     -> kAtanLut
      [] table = "kSinLut"      -> kSinLut
      [] table = "kLog2Lut"     -> kLog2Lut
      [] table = "kTanLut"      -> kTanLut

(***************************************************************************)
(* generate_atan_lut.py with entries = 512: the table size whose precision *)
(* the generated header documents.  The word is wide enough for every      *)
(* intermediate value, as int64_t is for fraction_bits = 32.               *)
(***************************************************************************)
\* fraction_bits of this run
AtanFineBits == 19

\* int(atan(i / 511) * scale)
kAtanLut512 == <<
    0, 1026, 2051, 3077, 4103, 5129, 6155, 7181, 8207, 9233, 10258, 11284,
    12309, 13335, 14360, 15385, 16410, 17435, 18460, 19485, 20509, 21533,
    22558, 23582, 24606, 25629, 26653, 27676, 28699, 29722, 30744, 31767,
    32789, 33811, 34832, 35854, 36875, 37896, 38916, 39936, 40956, 41976,
    42995, 44014, 45033, 46051, 47069, 48086, 49104, 50120, 51137, 52153,
    53169, 54184, 55199, 56213, 57227, 58241, 59254, 60267, 61279, 62291,
    63302, 64313, 65324, 66334, 67343, 68352, 69360, 70368, 71376, 72382,
    73389, 74394, 75400, 76404, 77408, 78412, 79415, 80417, 81419, 82420,
    83421, 84421, 85420, 86419, 87417, 88414, 89411, 90407, 91402, 92397,
    93391, 94385, 95378, 96370, 97361, 98352, 99342, 100331, 101319,
    102307, 103294, 104281, 105266, 106251, 107235, 108218, 109201,
    110183, 111164, 112144, 113123, 114102, 115079, 116056, 117033,
    118008, 118982, 119956, 120929, 121901, 122872, 123842, 124811,
    125780, 126748, 127714, 128680, 129645, 130609, 131573, 132535,
    133496, 134457, 135416, 136375, 137332, 138289, 139245, 140200,
    141154, 142107, 143059, 144010, 144960, 145909, 146857, 147804,
    148750, 149695, 150639, 151582, 152524, 153465, 154406, 155345,
    156283, 157220, 158156, 159090, 160024, 160957, 161889, 162820,
    163749, 164678, 165605, 166532, 167457, 168382, 169305, 170227,
    171148, 172068, 172987, 173905, 174821, 175737, 176651, 177564,
    178477, 179388, 180298, 181206, 182114, 183021, 183926, 184830,
    185733, 186635, 187536, 188436, 189334, 190232, 191128, 192023,
    192917, 193809, 194701, 195591, 196480, 197368, 198255, 199141,
    200025, 200908, 201790, 202671, 203550, 204429, 205306, 206182,
    207057, 207930, 208802, 209673, 210543, 211412, 212279, 213146,
    214011, 214874, 215737, 216598, 217458, 218317, 219174, 220031,
    220886, 221739, 222592, 223443, 224293, 225142, 225990, 226836,
    227681, 228525, 229367, 230208, 231048, 231887, 232724, 233560,
    234395, 235229, 236061, 236892, 237722, 238551, 239378, 240204,
    241028, 241852, 242674, 243495, 244314, 245132, 245949, 246765,
    247579, 248392, 249204, 250015, 250824, 251632, 252438, 253244,
    254048, 254850, 255652, 256452, 257251, 258048, 258845, 259640,
    260433, 261226, 262017, 262806, 263595, 264382, 265168, 265952,
    266735, 267517, 268298, 269077, 269855, 270632, 271407, 272182,
    272954, 273726, 274496, 275265, 276033, 276799, 277564, 278327,
    279090, 279851, 280611, 281369, 282126, 282882, 283637, 284390,
    285142, 285892, 286642, 287390, 288137, 288882, 289626, 290369,
    291110, 291851, 292590, 293327, 294064, 294799, 295532, 296265,
    296996, 297726, 298454, 299182, 299908, 300632, 301356, 302078,
    302799, 303518, 304236, 304953, 305669, 306383, 307097, 307808,
    308519, 309228, 309936, 310643, 311348, 312052, 312755, 313457,
    314157, 314856, 315554, 316250, 316945, 317639, 318332, 319023,
    319713, 320402, 321090, 321776, 322461, 323145, 323828, 324509,
    325189, 325868, 326545, 327221, 327896, 328570, 329243, 329914,
    330584, 331253, 331920, 332586, 333251, 333915, 334578, 335239,
    335899, 336558, 337215, 337872, 338527, 339181, 339833, 340485,
    341135, 341784, 342431, 343078, 343723, 344367, 345010, 345652,
    346292, 346931, 347569, 348206, 348842, 349476, 350109, 350741,
    351372, 352002, 352630, 353257, 353883, 354508, 355132, 355754,
    356375, 356995, 357614, 358232, 358848, 359463, 360077, 360690,
    361302, 361913, 362522, 363130, 363737, 364343, 364948, 365552,
    366154, 366755, 367355, 367954, 368552, 369149, 369744, 370339,
    370932, 371524, 372115, 372704, 373293, 373880, 374467, 375052,
    375636, 376219, 376801, 377381, 377961, 378539, 379117, 379693,
    380268, 380842, 381415, 381987, 382557, 383127, 383695, 384262,
    384829, 385394, 385958, 386521, 387082, 387643, 388203, 388761,
    389319, 389875, 390430, 390984, 391537, 392090, 392640, 393190,
    393739, 394287, 394834, 395379, 395924, 396467, 397010, 397551,
    398091, 398630, 399169, 399706, 400242, 400777, 401311, 401844,
    402376, 402907, 403436, 403965, 404493, 405020, 405545, 406070,
    406594, 407116, 407638, 408159, 408678, 409197, 409714, 410231,
    410746, 411261, 411774>>

\* Fixed64Mul where the rounded product is inside the word
RoundedProduct(a, b, fraction_bits) ==
    LET s  == 2^fraction_bits
        ah == a \div s
        al == a % s
        bh == b \div s
        bl == b % s
    IN  ah * bh * s + ah * bl + al * bh + (al * bl + 2^(fraction_bits - 1)) \div s

\* variant: the entry below x, without interpolation
AtanLinearOn_Nearest(lut, fraction_bits, idx, t) == lut[idx + 1]

\* y0 + t * (y1 - y0)
AtanLinearOn(lut, fraction_bits, idx, t) ==
    lut[idx + 1] + RoundedProduct(lut[idx + 2] - lut[idx + 1], t, fraction_bits)

\* LookupAtanFast of the header generated for lut at fraction_bits, called with
\* input_fraction_bits = fraction_bits
LookupAtanFastOn(lut, fraction_bits, x0) ==
    LET is_negative == x0 < 0
        x == IF is_negative THEN -x0 ELSE x0
        N == Len(lut)
        scale == N - 1
        idx_scaled == RoundedProduct(x, scale * 2^fraction_bits, fraction_bits)
        idx == idx_scaled \div 2^fraction_bits
        t == idx_scaled % 2^fraction_bits
        signed(result) == IF is_negative THEN -result ELSE result
    IN  IF x <= 0 THEN Outcome(0, "zero", is_negative, x, 0, 0, {})
        ELSE IF x >= 2^fraction_bits
        THEN Outcome(signed(lut[N]), "clamp", is_negative, x, 0, 0, {N - 1})
        ELSE IF idx >= N - 1
        THEN Outcome(signed(lut[N]), "idxclamp", is_negative, x, idx, t, {N - 1})
        ELSE Outcome(signed(AtanLinearOn(lut, fraction_bits, idx, t)), "interp", is_negative,
                     x, idx, t, {idx, idx + 1})

\* the j-th of the inputs at which the result is compared: four per bracket
\* of the table, from 0 to 1.0
SampleX(j) == (j * 2^AtanFineBits) \div (4 * (Len(kAtanLut512) - 1))

\* atan(x) at the sample x >= 0, with GuardBits digits behind the unit of the
\* table
AtanReference(x) ==
    LET reference == <<
        0, 16383, 32831, 49215, 65663, 82047, 98495, 114879, 131327,
        147711, 164158, 180542, 196989, 213373, 229820, 246203,
        262650, 279033, 295480, 311863, 328309, 344691, 361138,
        377520, 393965, 410347, 426792, 443174, 459619, 476000,
        492444, 508824, 525269, 541648, 558092, 574471, 590914,
        607293, 623736, 640114, 656556, 672933, 689374, 705751,
        722192, 738568, 755008, 771384, 787823, 804197, 820636,
        837010, 853447, 869821, 886257, 902630, 919066, 935437,
        951872, 968243, 984677, 1001046, 1017480, 1033848, 1050280,
        1066648, 1083079, 1099446, 1115876, 1132242, 1148671, 1165035,
        1181463, 1197826, 1214253, 1230615, 1247041, 1263402, 1279827,
        1296186, 1312610, 1328968, 1345390, 1361747, 1378168, 1394524,
        1410943, 1427298, 1443716, 1460069, 1476486, 1492838, 1509253,
        1525603, 1542017, 1558366, 1574778, 1591126, 1607536, 1623883,
        1640292, 1656636, 1673044, 1689387, 1705793, 1722134, 1738538,
        1754878, 1771280, 1787618, 1804019, 1820356, 1836755, 1853089,
        1869487, 1885819, 1902215, 1918546, 1934940, 1951269, 1967661,
        1983988, 2000378, 2016704, 2033092, 2049415, 2065802, 2082123,
        2098507, 2114827, 2131209, 2147526, 2163907, 2180222, 2196600,
        2212914, 2229290, 2245601, 2261975, 2278284, 2294656, 2310963,
        2327332, 2343637, 2360004, 2376307, 2392672, 2408972, 2425335,
        2441633, 2457993, 2474289, 2490647, 2506940, 2523296, 2539587,
        2555941, 2572229, 2588580, 2604866, 2621214, 2637498, 2653844,
        2670125, 2686469, 2702747, 2719088, 2735364, 2751702, 2767976,
        2784311, 2800582, 2816915, 2833183, 2849514, 2865779, 2882107,
        2898369, 2914694, 2930954, 2947277, 2963534, 2979853, 2996107,
        3012424, 3028676, 3044989, 3061238, 3077549, 3093795, 3110102,
        3126345, 3142650, 3158890, 3175192, 3191429, 3207728, 3223962,
        3240258, 3256489, 3272781, 3289009, 3305299, 3321524, 3337810,
        3354032, 3370315, 3386534, 3402814, 3419029, 3435306, 3451518,
        3467792, 3484001, 3500271, 3516477, 3532744, 3548946, 3565210,
        3581409, 3597670, 3613865, 3630122, 3646314, 3662568, 3678757,
        3695007, 3711192, 3727439, 3743621, 3759864, 3776042, 3792282,
        3808457, 3824693, 3840864, 3857097, 3873264, 3889493, 3905657,
        3921882, 3938042, 3954264, 3970421, 3986638, 4002791, 4019005,
        4035155, 4051365, 4067510, 4083717, 4099858, 4116061, 4132199,
        4148398, 4164531, 4180726, 4196856, 4213047, 4229174, 4245361,
        4261483, 4277666, 4293784, 4309963, 4326077, 4342252, 4358363,
        4374534, 4390640, 4406807, 4422909, 4439072, 4455169, 4471328,
        4487422, 4503576, 4519666, 4535816, 4551902, 4568048, 4584129,
        4600271, 4616348, 4632485, 4648558, 4664691, 4680759, 4696888,
        4712952, 4729077, 4745137, 4761257, 4777312, 4793428, 4809478,
        4825590, 4841636, 4857743, 4873785, 4889887, 4905924, 4922022,
        4938055, 4954148, 4970176, 4986265, 5002289, 5018373, 5034392,
        5050471, 5066486, 5082560, 5098570, 5114640, 5130645, 5146710,
        5162711, 5178771, 5194767, 5210823, 5226813, 5242864, 5258850,
        5274896, 5290878, 5306919, 5322895, 5338932, 5354903, 5370934,
        5386901, 5402928, 5418889, 5434911, 5450867, 5466884, 5482835,
        5498847, 5514794, 5530800, 5546742, 5562743, 5578680, 5594676,
        5610607, 5626598, 5642525, 5658511, 5674432, 5690413, 5706329,
        5722304, 5738215, 5754185, 5770091, 5786056, 5801956, 5817916,
        5833811, 5849766, 5865655, 5881604, 5897489, 5913433, 5929312,
        5945250, 5961124, 5977057, 5992925, 6008852, 6024715, 6040637,
        6056495, 6072411, 6088263, 6104174, 6120020, 6135926, 6151767,
        6167667, 6183502, 6199396, 6215226, 6231115, 6246939, 6262822,
        6278640, 6294517, 6310330, 6326202, 6342009, 6357875, 6373676,
        6389536, 6405332, 6421186, 6436976, 6452825, 6468609, 6484452,
        6500230, 6516067, 6531839, 6547670, 6563437, 6579262, 6595023,
        6610842, 6626597, 6642410, 6658159, 6673966, 6689709, 6705510,
        6721247, 6737043, 6752774, 6768563, 6784288, 6800071, 6815790,
        6831567, 6847279, 6863050, 6878757, 6894522, 6910222, 6925981,
        6941675, 6957428, 6973116, 6988862, 7004544, 7020284, 7035960,
        7051693, 7067363, 7083090, 7098753, 7114474, 7130131, 7145846,
        7161497, 7177205, 7192849, 7208551, 7224189, 7239885, 7255516,
        7271206, 7286831, 7302513, 7318132, 7333808, 7349420, 7365090,
        7380696, 7396359, 7411958, 7427615, 7443208, 7458858, 7474444,
        7490087, 7505667, 7521304, 7536877, 7552507, 7568073, 7583697,
        7599256, 7614874, 7630426, 7646037, 7661583, 7677187, 7692726,
        7708323, 7723856, 7739446, 7754972, 7770555, 7786074, 7801651,
        7817163, 7832733, 7848238, 7863801, 7879300, 7894856, 7910348,
        7925897, 7941382, 7956924, 7972402, 7987937, 8003408, 8018936,
        8034400, 8049921, 8065379, 8080893, 8096343, 8111850, 8127293,
        8142793, 8158229, 8173722, 8189151, 8204637, 8220119, 8235538,
        8251013, 8266424, 8281892, 8297297, 8312757, 8328154, 8343608,
        8358998, 8374444, 8389827, 8405266, 8420641, 8436073, 8451442,
        8466866, 8482227, 8497644, 8512998, 8528408, 8543754, 8559157,
        8574496, 8589891, 8605223, 8620611, 8635935, 8651316, 8666633,
        8682006, 8697315, 8712681, 8727983, 8743341, 8758636, 8773986,
        8789273, 8804617, 8819896, 8835232, 8850504, 8865832, 8881097,
        8896417, 8911675, 8926987, 8942237, 8957542, 8972784, 8988082,
        9003316, 9018606, 9033833, 9049116, 9064335, 9079609, 9094821,
        9110088, 9125291, 9140551, 9155747, 9170998, 9186187, 9201430,
        9216611, 9231847, 9247020, 9262248, 9277413, 9292633, 9307791,
        9323003, 9338153, 9353357, 9368499, 9383696, 9398830, 9414018,
        9429144, 9444325, 9459443, 9474616, 9489726, 9504892, 9519994,
        9535151, 9550245, 9565394, 9580480, 9595622, 9610700, 9625833,
        9640903, 9656028, 9671091, 9686208, 9701262, 9716371, 9731417,
        9746518, 9761556, 9776649, 9791679, 9806763, 9821785, 9836862,
        9851875, 9866944, 9881949, 9897009, 9912007, 9927059, 9942048,
        9957092, 9972073, 9987108, 10002081, 10017108, 10032073,
        10047092, 10062048, 10077059, 10092007, 10107010, 10121949,
        10136943, 10151875, 10166861, 10181784, 10196761, 10211676,
        10226645, 10241552, 10256512, 10271410, 10286363, 10301252,
        10316196, 10331078, 10346013, 10360886, 10375813, 10390677,
        10405596, 10420452, 10435362, 10450210, 10465111, 10479950,
        10494843, 10509674, 10524558, 10539380, 10554256, 10569070,
        10583937, 10598742, 10613601, 10628397, 10643247, 10658035,
        10672877, 10687656, 10702489, 10717260, 10732084, 10746846,
        10761662, 10776415, 10791222, 10805967, 10820765, 10835501,
        10850291, 10865018, 10879799, 10894518, 10909290, 10924000,
        10938763, 10953464, 10968219, 10982912, 10997657, 11012341,
        11027078, 11041753, 11056481, 11071148, 11085867, 11100524,
        11115235, 11129883, 11144585, 11159225, 11173918, 11188549,
        11203232, 11217855, 11232529, 11247143, 11261809, 11276413,
        11291070, 11305666, 11320314, 11334901, 11349540, 11364117,
        11378748, 11393316, 11407938, 11422497, 11437110, 11451660,
        11466264, 11480805, 11495400, 11509932, 11524518, 11539041,
        11553617, 11568132, 11582699, 11597205, 11611763, 11626260,
        11640809, 11655296, 11669836, 11684315, 11698845, 11713315,
        11727836, 11742297, 11756809, 11771260, 11785763, 11800206,
        11814700, 11829133, 11843617, 11858041, 11872517, 11886932,
        11901398, 11915803, 11930261, 11944657, 11959105, 11973492,
        11987931, 12002309, 12016738, 12031107, 12045527, 12059886,
        12074297, 12088648, 12103049, 12117390, 12131782, 12146114,
        12160497, 12174819, 12189193, 12203506, 12217870, 12232174,
        12246529, 12260823, 12275169, 12289454, 12303790, 12318066,
        12332393, 12346659, 12360976, 12375233, 12389541, 12403789,
        12418088, 12432326, 12446615, 12460844, 12475123, 12489343,
        12503613, 12517823, 12532084, 12546284, 12560536, 12574727,
        12588968, 12603150, 12617382, 12631554, 12645777, 12659940,
        12674153, 12688306, 12702510, 12716654, 12730848, 12744982,
        12759166, 12773291, 12787466, 12801581, 12815747, 12829852,
        12844008, 12858104, 12872250, 12886337, 12900473, 12914550,
        12928677, 12942744, 12956862, 12970919, 12985027, 12999075,
        13013173, 13027212, 13041300, 13055329, 13069408, 13083427,
        13097496, 13111506, 13125565, 13139565, 13153615, 13167605,
        13181645, 13195625, 13209656, 13223626, 13237647, 13251608,
        13265619, 13279570, 13293571, 13307513, 13321504, 13335437,
        13349418, 13363340, 13377312, 13391225, 13405187, 13419089,
        13433042, 13446935, 13460877, 13474760, 13488693, 13502566,
        13516489, 13530353, 13544266, 13558120, 13572023, 13585867,
        13599760, 13613595, 13627478, 13641303, 13655176, 13668991,
        13682854, 13696659, 13710513, 13724308, 13738152, 13751937,
        13765771, 13779546, 13793371, 13807136, 13820950, 13834706,
        13848510, 13862256, 13876050, 13889786, 13903570, 13917296,
        13931071, 13944787, 13958551, 13972257, 13986012, 13999708,
        14013453, 14027139, 14040873, 14054550, 14068274, 14081941,
        14095655, 14109312, 14123016, 14136663, 14150358, 14163994,
        14177679, 14191305, 14204980, 14218596, 14232261, 14245867,
        14259522, 14273119, 14286763, 14300350, 14313984, 14327561,
        14341185, 14354752, 14368366, 14381922, 14395527, 14409073,
        14422668, 14436204, 14449788, 14463315, 14476889, 14490405,
        14503969, 14517475, 14531029, 14544525, 14558069, 14571555,
        14585089, 14598565, 14612089, 14625555, 14639068, 14652524,
        14666027, 14679473, 14692967, 14706402, 14719885, 14733311,
        14746784, 14760199, 14773662, 14787067, 14800520, 14813915,
        14827358, 14840743, 14854175, 14867550, 14880972, 14894337,
        14907749, 14921104, 14934506, 14947850, 14961242, 14974576,
        14987958, 15001282, 15014653, 15027967, 15041328, 15054632,
        15067983, 15081277, 15094617, 15107901, 15121231, 15134504,
        15147824, 15161088, 15174397, 15187650, 15200950, 15214193,
        15227482, 15240715, 15253994, 15267216, 15280485, 15293697,
        15306956, 15320158, 15333406, 15346598, 15359836, 15373018,
        15386246, 15399417, 15412634, 15425795, 15439003, 15452154,
        15465351, 15478491, 15491678, 15504808, 15517985, 15531105,
        15544271, 15557432, 15570536, 15583687, 15596781, 15609922,
        15623006, 15636136, 15649210, 15662330, 15675393, 15688503,
        15701556, 15714655, 15727698, 15740787, 15753819, 15766898,
        15779920, 15792988, 15806001, 15819058, 15832060, 15845108,
        15858099, 15871136, 15884118, 15897144, 15910115, 15923132,
        15936092, 15949098, 15962049, 15975044, 15987984, 16000970,
        16013899, 16026874, 16039794, 16052758, 16065667, 16078622,
        16091520, 16104464, 16117353, 16130286, 16143164, 16156087,
        16168955, 16181868, 16194725, 16207628, 16220475, 16233367,
        16246203, 16259085, 16271911, 16284782, 16297598, 16310459,
        16323265, 16336115, 16348910, 16361750, 16374535, 16387365,
        16400140, 16412959, 16425723, 16438532, 16451286, 16464084,
        16476828, 16489616, 16502349, 16515126, 16527849, 16540616,
        16553328, 16566085, 16578787, 16591534, 16604225, 16616961,
        16629642, 16642368, 16655039, 16667754, 16680414, 16693119,
        16705769, 16718463, 16731103, 16743787, 16756416, 16769090,
        16781708, 16794371, 16806980, 16819632, 16832231, 16844873,
        16857460, 16870092, 16882669, 16895291, 16907858, 16920468,
        16933025, 16945625, 16958172, 16970761, 16983297, 16995877,
        17008402, 17020971, 17033486, 17046045, 17058549, 17071097,
        17083591, 17096129, 17108613, 17121140, 17133614, 17146130,
        17158593, 17171100, 17183552, 17196048, 17208490, 17220976,
        17233407, 17245882, 17258304, 17270768, 17283179, 17295633,
        17308034, 17320478, 17332868, 17345301, 17357681, 17370103,
        17382473, 17394885, 17407244, 17419646, 17431994, 17444385,
        17456723, 17469104, 17481432, 17493803, 17506120, 17518480,
        17530787, 17543136, 17555433, 17567772, 17580058, 17592386,
        17604662, 17616980, 17629245, 17641553, 17653808, 17666105,
        17678349, 17690636, 17702870, 17715147, 17727370, 17739636,
        17751849, 17764105, 17776307, 17788552, 17800745, 17812979,
        17825161, 17837385, 17849557, 17861771, 17873932, 17886135,
        17898285, 17910478, 17922618, 17934801, 17946931, 17959103,
        17971222, 17983383, 17995492, 18007643, 18019742, 18031883,
        18043971, 18056101, 18068179, 18080298, 18092366, 18104475,
        18116532, 18128631, 18140677, 18152766, 18164802, 18176880,
        18188906, 18200973, 18212988, 18225045, 18237050, 18249097,
        18261092, 18273128, 18285112, 18297138, 18309112, 18321127,
        18333090, 18345095, 18357048, 18369043, 18380985, 18392969,
        18404901, 18416875, 18428797, 18440760, 18452671, 18464624,
        18476525, 18488468, 18500358, 18512290, 18524170, 18536092,
        18547962, 18559873, 18571732, 18583633, 18595482, 18607372,
        18619211, 18631091, 18642920, 18654789, 18666607, 18678466,
        18690274, 18702122, 18713920, 18725758, 18737545, 18749372,
        18761149, 18772966, 18784733, 18796540, 18808296, 18820092,
        18831838, 18843624, 18855359, 18867135, 18878860, 18890625,
        18902339, 18914094, 18925799, 18937543, 18949237, 18960971,
        18972655, 18984378, 18996052, 19007765, 19019428, 19031131,
        19042783, 19054476, 19066118, 19077800, 19089432, 19101104,
        19112726, 19124387, 19135998, 19147650, 19159250, 19170891,
        19182482, 19194112, 19205692, 19217312, 19228882, 19240492,
        19252052, 19263651, 19275200, 19286789, 19298328, 19309907,
        19321436, 19333004, 19344522, 19356080, 19367588, 19379136,
        19390634, 19402171, 19413659, 19425186, 19436663, 19448180,
        19459646, 19471153, 19482609, 19494106, 19505552, 19517038,
        19528474, 19539949, 19551375, 19562840, 19574255, 19585710,
        19597115, 19608560, 19619955, 19631389, 19642774, 19654198,
        19665572, 19676986, 19688350, 19699753, 19711107, 19722500,
        19733844, 19745227, 19756560, 19767933, 19779256, 19790618,
        19801931, 19813283, 19824586, 19835927, 19847220, 19858551,
        19869833, 19881155, 19892427, 19903738, 19914999, 19926300,
        19937552, 19948842, 19960083, 19971363, 19982595, 19993865,
        20005085, 20016345, 20027556, 20038805, 20050006, 20061245,
        20072435, 20083664, 20094845, 20106063, 20117233, 20128442,
        20139602, 20150800, 20161950, 20173138, 20184277, 20195455,
        20206584, 20217752, 20228871, 20240029, 20251138, 20262285,
        20273384, 20284521, 20295609, 20306736, 20317815, 20328932,
        20340000, 20351106, 20362165, 20373261, 20384309, 20395395,
        20406433, 20417509, 20428537, 20439603, 20450621, 20461676,
        20472684, 20483730, 20494727, 20505762, 20516750, 20527775,
        20538752, 20549767, 20560735, 20571740, 20582697, 20593692,
        20604639, 20615623, 20626560, 20637535, 20648462, 20659426,
        20670343, 20681297, 20692204, 20703148, 20714045, 20724979,
        20735866, 20746790, 20757666, 20768580, 20779446, 20790350,
        20801207, 20812101, 20822947, 20833831, 20844667, 20855541,
        20866367, 20877230, 20888047, 20898900, 20909706, 20920550,
        20931346, 20942179, 20952966, 20963789, 20974565, 20985378,
        20996145, 21006948, 21017704, 21028497, 21039244, 21050027,
        21060763, 21071536, 21082262, 21093025, 21103742, 21114495,
        21125201, 21135944, 21146641, 21157374, 21168060, 21178783,
        21189460, 21200173, 21210839, 21221542, 21232199, 21242892,
        21253538, 21264222, 21274858, 21285531, 21296158, 21306821,
        21317438, 21328091, 21338698, 21349341, 21359938, 21370572,
        21381159, 21391782, 21402359, 21412973, 21423540, 21434144,
        21444701, 21455294, 21465842, 21476426, 21486963, 21497537,
        21508065, 21518628, 21529146, 21539700, 21550208, 21560752,
        21571250, 21581784, 21592314, 21602797, 21613316, 21623790,
        21634299, 21644763, 21655262, 21665716, 21676206, 21686650,
        21697130, 21707564, 21718034, 21728458, 21738918, 21749333,
        21759783, 21770188, 21780628, 21791023, 21801454, 21811839,
        21822259, 21832635, 21843046, 21853411, 21863812, 21874168,
        21884559, 21894905, 21905287, 21915623, 21925995, 21936321,
        21946683, 21957000, 21967352, 21977659, 21988001, 21998299,
        22008631, 22018919, 22029241, 22039519, 22049832, 22060100,
        22070404, 22080662, 22090955, 22101204, 22111488, 22121727,
        22132001, 22142230, 22152494, 22162714, 22172968, 22183178,
        22193423, 22203623, 22213858, 22224049, 22234274, 22244455,
        22254671, 22264842, 22275048, 22285210, 22295406, 22305558,
        22315745, 22325887, 22336064, 22346196, 22356364, 22366487,
        22376644, 22386758, 22396906, 22407009, 22417148, 22427242,
        22437371, 22447455, 22457574, 22467649, 22477758, 22487824,
        22497924, 22507979, 22518070, 22528116, 22538196, 22548233,
        22558304, 22568331, 22578392, 22588410, 22598462, 22608469,
        22618512, 22628510, 22638543, 22648531, 22658554, 22668534,
        22678547, 22688517, 22698521, 22708481, 22718476, 22728426,
        22738411, 22748352, 22758328, 22768259, 22778225, 22788147,
        22798104, 22808016, 22817963, 22827866, 22837803, 22847697,
        22857625, 22867509, 22877427, 22887302, 22897211, 22907076,
        22916976, 22926832, 22936721, 22946568, 22956448, 22966285,
        22976156, 22985984, 22995845, 23005663, 23015515, 23025324,
        23035166, 23044966, 23054799, 23064589, 23074412, 23084193,
        23094007, 23103778, 23113583, 23123345, 23133140, 23142893,
        23152679, 23162422, 23172198, 23181932, 23191699, 23201424,
        23211182, 23220897, 23230645, 23240351, 23250090, 23259786,
        23269516, 23279203, 23288923, 23298601, 23308312, 23317980,
        23327682, 23337341, 23347033, 23356683, 23366366, 23376007,
        23385680, 23395312, 23404976, 23414598, 23424253, 23433866,
        23443511, 23453115, 23462751, 23472345, 23481973, 23491558,
        23501175, 23510751, 23520360, 23529926, 23539526, 23549083,
        23558673, 23568221, 23577802, 23587341, 23596912, 23606442,
        23616004, 23625525, 23635078, 23644589, 23654133, 23663635,
        23673170, 23682663, 23692188, 23701672, 23711188, 23720663,
        23730170, 23739635, 23749133, 23758589, 23768078, 23777525,
        23787005, 23796443, 23805913, 23815342, 23824803, 23834223,
        23843675, 23853086, 23862529, 23871930, 23881364, 23890757,
        23900181, 23909565, 23918980, 23928354, 23937761, 23947126,
        23956523, 23965880, 23975268, 23984615, 23993994, 24003332,
        24012702, 24022031, 24031392, 24040712, 24050064, 24059375,
        24068718, 24078020, 24087354, 24096647, 24105971, 24115255,
        24124571, 24133846, 24143153, 24152419, 24161716, 24170973,
        24180262, 24189510, 24198789, 24208028, 24217299, 24226529,
        24235791, 24245012, 24254264, 24263477, 24272720, 24281923,
        24291158, 24300352, 24309578, 24318763, 24327980, 24337157,
        24346365, 24355532, 24364731, 24373890, 24383079, 24392229,
        24401410, 24410551, 24419723, 24428855, 24438018, 24447141,
        24456296, 24465410, 24474555, 24483661, 24492797, 24501894,
        24511021, 24520109, 24529228, 24538307, 24547416, 24556486,
        24565587, 24574649, 24583741, 24592793, 24601877, 24610920,
        24619995, 24629029, 24638095, 24647121, 24656178, 24665195,
        24674243, 24683252, 24692291, 24701290, 24710321, 24719312,
        24728333, 24737316, 24746328, 24755302, 24764306, 24773271,
        24782266, 24791222, 24800208, 24809156, 24818133, 24827072,
        24836041, 24844971, 24853931, 24862852, 24871804, 24880716,
        24889659, 24898563, 24907497, 24916392, 24925318, 24934204,
        24943121, 24951998, 24960907, 24969776, 24978675, 24987535,
        24996426, 25005278, 25014160, 25023003, 25031877, 25040711,
        25049576, 25058402, 25067258, 25076075, 25084923, 25093731,
        25102570, 25111370, 25120201, 25128992, 25137814, 25146597,
        25155410, 25164184, 25172988, 25181754, 25190550, 25199307,
        25208095, 25216843, 25225622, 25234362, 25243132, 25251864,
        25260626, 25269349, 25278102, 25286816, 25295561, 25304267,
        25313003, 25321701, 25330428, 25339117, 25347836, 25356517,
        25365227, 25373899, 25382601, 25391265, 25399958, 25408613,
        25417298, 25425945, 25434621, 25443260, 25451928, 25460558,
        25469217, 25477838, 25486489, 25495103, 25503745, 25512350,
        25520984, 25529580, 25538206, 25546794, 25555411, 25563990,
        25572599, 25581170, 25589771, 25598333, 25606925, 25615480,
        25624063, 25632609, 25641185, 25649722, 25658289, 25666818,
        25675377, 25683898, 25692448, 25700961, 25709502, 25718007,
        25726540, 25735036, 25743561, 25752049, 25760566, 25769045,
        25777553, 25786025, 25794525, 25802988, 25811479, 25819934,
        25828417, 25836864, 25845339, 25853777, 25862244, 25870674,
        25879132, 25887554, 25896004, 25904418, 25912860, 25921265,
        25929699, 25938096, 25946521, 25954910, 25963327, 25971708,
        25980117, 25988489, 25996890, 26005254, 26013647, 26022003,
        26030387, 26038735, 26047111, 26055451, 26063819, 26072150,
        26080510, 26088834, 26097185, 26105500, 26113844, 26122151,
        26130486, 26138785, 26147113, 26155403, 26163722, 26172005,
        26180316, 26188591, 26196894, 26205160, 26213455, 26221713,
        26230000, 26238250, 26246529, 26254771, 26263041, 26271276,
        26279538, 26287764, 26296018, 26304236, 26312482, 26320693,
        26328931, 26337133, 26345363, 26353589>>
    IN  reference[(CHOOSE j \in 0..(Len(reference) - 1) : SampleX(j) = x) + 1]
(***************************************************************************)
(* generate_atan2_lut.py: table_size = 256; the table and the evaluators   *)
(* are written with 16 fraction bits where the script has 32               *)
(***************************************************************************)
\* "constexpr int kTableP = 32"
kTableP == 16

\* int(float(mp.atan(mpf(x))) * (1 << P)) for x in np.linspace(0, 1, 256)
kAtan2LUT ==
    [k \in 1..Len(Reference("kAtan2LUT")) |->
        int(float(Reference("kAtan2LUT")[k]), Guard("kAtan2LUT"))]
\* variant: "frac = kIndexScale" left out where the index is clamped
LookupAtan2Table_FracKept(ratio, P) ==
    LET converted == IF P > kTableP THEN ShiftRight(ratio, P - kTableP)
                     ELSE IF P < kTableP THEN ShiftLeft(ratio, kTableP - P)
                     ELSE ratio
        scaled_x == IF converted >= 2^kTableP THEN 2^kTableP - 1 ELSE converted
        kTableSize == Len(kAtan2LUT)
        kIndexScale == 2^kTableP \div (kTableSize - 1)
        above == scaled_x \div kIndexScale >= kTableSize - 1
        index == IF above THEN kTableSize - 2 ELSE scaled_x \div kIndexScale
        frac == scaled_x % kIndexScale
        y0 == kAtan2LUT[index + 1]
        y1 == kAtan2LUT[index + 2]
        result == Wrap(y0 + Wrap((y1 - y0) * frac) \div kIndexScale)
    IN  Outcome(IF P > kTableP THEN ShiftLeft(result, P - kTableP)
                ELSE IF P < kTableP THEN ShiftRight(result, kTableP - P)
                ELSE result,
                "interp", FALSE, scaled_x, index, frac, {index, index + 1})

\* "Scale input to [0, 1] range", "Ensure input is in valid range",
\* "Calculate table index and fractional part", "Ensure index is within
\* bounds", "Perform linear interpolation", "Adjust precision if needed"
LookupAtan2Table(ratio, P) ==
    LET converted == IF P > kTableP THEN ShiftRight(ratio, P - kTableP)
                     ELSE IF P < kTableP THEN ShiftLeft(ratio, kTableP - P)
                     ELSE ratio
        scaled_x == IF converted >= 2^kTableP THEN 2^kTableP - 1 ELSE converted
        kTableSize == Len(kAtan2LUT)
        kIndexScale == 2^kTableP \div (kTableSize - 1)
        above == scaled_x \div kIndexScale >= kTableSize - 1
        index == IF above THEN kTableSize - 2 ELSE scaled_x \div kIndexScale
        frac == IF above THEN kIndexScale ELSE scaled_x % kIndexScale
        y0 == kAtan2LUT[index + 1]
        y1 == kAtan2LUT[index + 2]
        result == Wrap(y0 + Wrap((y1 - y0) * frac) \div kIndexScale)
    IN  Outcome(IF P > kTableP THEN ShiftLeft(result, P - kTableP)
                ELSE IF P < kTableP THEN ShiftRight(result, kTableP - P)
                ELSE result,
                "interp", FALSE, scaled_x, index, frac, {index, index + 1})

\* "Calculate table index (simplified for speed)": the 8 most significant
\* bits are the index, the next 8 bits the fractional part
LookupAtan2TableFast(ratio, P) ==
    LET converted == IF P > kTableP THEN ShiftRight(ratio, P - kTableP)
                     ELSE IF P < kTableP THEN ShiftLeft(ratio, kTableP - P)
                     ELSE ratio
        scaled_x == IF converted >= 2^kTableP THEN 2^kTableP - 1 ELSE converted
        kTableSize == Len(kAtan2LUT)
        kShift == kTableP - 8
        shifted == ShiftRight(scaled_x, kShift)
        index == IF shifted >= kTableSize - 1 THEN kTableSize - 2 ELSE shifted
        frac == ShiftRight(scaled_x, kShift - 8) % 256
        y0 == kAtan2LUT[index + 1]
        y1 == kAtan2LUT[index + 2]
        result == Wrap(y0 + Wrap((y1 - y0) * frac) \div 256)
    IN  Outcome(IF P > kTableP THEN ShiftLeft(result, P - kTableP)
                ELSE IF P < kTableP THEN ShiftRight(result, kTableP - P)
                ELSE result,
                "interp", FALSE, scaled_x, index, frac, {index, index + 1})
(***************************************************************************)
(* generate_constants.py: print_constant_info splits int(value * 2^63)     *)
(* into a signed high part and an unsigned low part.  The parts are        *)
(* PartBits wide here where the script has 64; a hexadecimal numeral is a  *)
(* sequence of digits 0..15, most significant first.                       *)
(***************************************************************************)
\* the 64 of "int_scaled >> 64" and "(1 << 64) - 1"
PartBits == 4

\* variant: the high part is the quotient truncated toward zero
print_constant_info_TruncatedHigh(scaled, guard) ==
    LET hex(n, width) == [i \in 1..width |-> (n \div 16^(width - i)) % 16]
        digits(n) == 1 + MostSignificantBit(n) \div 4
        int_scaled == int(scaled, guard)
        high_part == IF int_scaled >= 0 THEN int_scaled \div 2^PartBits
                     ELSE -((-int_scaled) \div 2^PartBits)
        low_part == int_scaled % 2^PartBits
    IN  [path |-> "printed",
         high_part_str |-> IF high_part < 0
                           THEN [sign |-> "-", hex |-> hex(-high_part, digits(-high_part))]
                           ELSE [sign |-> "", hex |-> hex(high_part, digits(high_part))],
         low_part_str |-> hex(low_part, PartBits \div 4),
         full_str |-> hex(int_scaled % 2^(2 * PartBits), (2 * PartBits) \div 4)]

\* what print_constant_info prints for value * 2^63 = scaled / 2^guard: the
\* fields "Full 128-bit hex", "<name>_hi" and "<name>_lo"
print_constant_info(scaled, guard) ==
    LET hex(n, width) == [i \in 1..width |-> (n \div 16^(width - i)) % 16]
        digits(n) == 1 + MostSignificantBit(n) \div 4
        int_scaled == int(scaled, guard)
        high_part == int_scaled \div 2^PartBits               \* >> rounds down
        low_part == int_scaled % 2^PartBits
    IN  [path |-> "printed",
         high_part_str |-> IF high_part < 0
                           THEN [sign |-> "-", hex |-> hex(-high_part, digits(-high_part))]
                           ELSE [sign |-> "", hex |-> hex(high_part, digits(high_part))],
         low_part_str |-> hex(low_part, PartBits \div 4),
         full_str |-> hex(int_scaled % 2^(2 * PartBits), (2 * PartBits) \div 4)]

(***************************************************************************)
(* Command-line entry points (the "__main__" blocks)                       *)
(***************************************************************************)
Digits == {"0", "1", "2", "3", "4", "5", "6", "7", "8", "9"}

\* int(s) returns: an optional sign and at least one decimal digit
IsInteger(s) ==
    LET body == IF Len(s) > 0 /\ s[1] \in {"+", "-"} THEN Tail(s) ELSE s
    IN  Len(body) > 0 /\ \A k \in 1..Len(body) : body[k] \in Digits

\* mp.mpf(s) returns: digits with at most one point, and an optional exponent
IsNumber(s) ==
    LET IsDecimal(d) ==
            LET u == IF Len(d) > 0 /\ d[1] \in {"+", "-"} THEN Tail(d) ELSE d
            IN  /\ \A k \in 1..Len(u) : u[k] \in Digits \cup {"."}
                /\ \E k \in 1..Len(u) : u[k] \in Digits
                /\ Cardinality({k \in 1..Len(u) : u[k] = "."}) <= 1
        marks == {k \in 1..Len(s) : s[k] \in {"e", "E"}}
    IN  \/ marks = {} /\ IsDecimal(s)
        \/ \E k \in marks : /\ marks = {k}
                            /\ IsDecimal(SubSeq(s, 1, k - 1))
                            /\ IsInteger(SubSeq(s, k + 1, Len(s)))

\* the words a command line is made of
Tokens == {<<"o", "u", "t", ".", "h">>, <<"1", "6">>, <<"-", "3">>, <<"+", "8">>,
           <<"1", ".", "5">>, <<"1", "e", "3">>, <<"a", "b">>, <<>>}

MaxArgs == 3

\* scripts whose first argument is an entry count or else the output file
CountFirstScripts == {"generate_acos_lut", "generate_atan_lut", "generate_cordic_table"}

\* scripts whose first argument is the output file; generate_log2_lut reads a
\* third argument, as the scripts above do
FileFirstScripts == {"generate_log2_lut", "generate_sin_lut", "generate_tan_lut"}

\* the message of the except branch
ErrorText(script, k) ==
    CASE script = "generate_constants" -> "Error processing input"
      [] script \in {"generate_acos_lut", "generate_atan_lut"} /\ k = 2 ->
             "Error: Invalid number of entries"
      [] script = "generate_cordic_table" /\ k = 2 -> "Error: Invalid number of iterations"
      [] script = "generate_cordic_table" /\ k = 3 -> "Error: Invalid scale bits"
      [] script = "generate_log2_lut" /\ k = 3 -> "Error: Invalid table size"
      [] OTHER -> "Error: Invalid fraction bits"

\* variant: an argument that does not parse leaves the default in place
ParseNumeric_KeepDefault(c, k, next) ==
    LET field == IF (c.script \in CountFirstScripts) = (k = 2) THEN "entries"
                 ELSE "fraction_bits"
    IN  IF Len(c.argv) < k THEN [c EXCEPT !.pc = next]
        ELSE IF IsInteger(c.argv[k])
        THEN [c EXCEPT ![field] = <<c.argv[k]>>, !.pc = next]
        ELSE [c EXCEPT !.pc = next]

\* if len(sys.argv) > k: try: ... = int(sys.argv[k]); except ValueError: print the
\* error and sys.exit(1).  The second argument is the entry count of the
\* scripts that take a count first and the fraction bits of the others, the
\* third argument the other of the two; a parsed variable holds its word.
ParseNumeric(c, k, next) ==
    LET field == IF (c.script \in CountFirstScripts) = (k = 2) THEN "entries"
                 ELSE "fraction_bits"
    IN  IF Len(c.argv) < k THEN [c EXCEPT !.pc = next]
        ELSE IF IsInteger(c.argv[k])
        THEN [c EXCEPT ![field] = <<c.argv[k]>>, !.pc = next]
        ELSE [c EXCEPT !.message = <<ErrorText(c.script, k), c.argv[k]>>,
                       !.exit = 1, !.pc = "exit"]

(***************************************************************************)
(* Requests and the state machine                                          *)
(***************************************************************************)
MaxUnit == 2200

MaxAngle == 3400

MaxLog == 2200

HalfWord == 2^(WordBits - 2)

Extremes == {INT64_MIN, INT64_MIN + 1, -HalfWord - 1, -HalfWord, -HalfWord + 1,
             HalfWord - 1, HalfWord, HalfWord + 1, INT64_MAX - 1, INT64_MAX}

\* 2^k and 1.5 * 2^k in the internal format, for the exponents the word holds
PowerInputs == {2^k : k \in 0..(WordBits - 2)} \cup {3 * 2^k : k \in 0..(WordBits - 3)}

UnitInputs == (-MaxUnit..MaxUnit) \cup Extremes

AngleInputs == (-MaxAngle..MaxAngle) \cup Extremes

Log2Inputs == (-MaxLog..MaxLog) \cup Extremes \cup PowerInputs

AcosFns == {"LookupAcosFast", "LookupAcos"}

AtanFns == {"LookupAtanFast", "LookupAtan"}

SinFns == {"LookupSinFast", "LookupSin"}

Log2Fns == {"LookupLog2Fast", "LookupLog2"}

TanFns == {"LookupTanFast", "LookupTan"}

Requests ==
    [fn : AcosFns \cup AtanFns, x : UnitInputs, F : InputBits]
    \cup [fn : SinFns, x : AngleInputs, F : InputBits]
    \cup [fn : Log2Fns, x : Log2Inputs, F : InputBits]
    \cup [fn : TanFns, x : AngleInputs, F : InputBits]

\* the evaluator a request names, applied to its arguments
Evaluate(fn, x, F) ==
    CASE fn = "LookupAcosFast" -> LookupAcosFast(x, F)
      [] fn = "LookupAcos"     -> LookupAcos(x, F)
      [] fn = "LookupAtanFast" -> LookupAtanFast(x, F)
      [] fn = "LookupAtan"     -> LookupAtan(x, F)
      [] fn = "LookupSinFast"  -> LookupSinFast(x, F)
      [] fn = "LookupSin"      -> LookupSin(x, F)
      [] fn = "LookupLog2Fast" -> LookupLog2Fast(x, F)
      [] fn = "LookupLog2"     -> LookupLog2(x, F)
      [] fn = "LookupTanFast"  -> LookupTanFast(x, F)
      [] fn = "LookupTan"      -> LookupTan(x, F)

NoRet == [value |-> 0, fault |-> FALSE, path |-> "none", neg |-> FALSE, xin |-> 0,
          idx |-> 0, t |-> 0, reads |-> {},
          exponent |-> 0, mantissa |-> 0, interp |-> 0, overflow |-> FALSE]

\* the value of a variable the specification at hand does not use
Idle == [pc |-> "none"]

\* no evaluator call pending
NoReq == [fn |-> "none", x |-> 0, F |-> kOutputFractionBits]

\* req, ret: the pending evaluator call and its result
\* gen: the table a generator is writing, its loop index and the entries so far
\* cli: a generator script's entry point working through sys.argv
\* calls: for every caller, the call it is in or has last completed
\* search: FindAcosIndex at work on a table of N entries
VARIABLES req, ret, gen, cli, calls, search

vars == <<req, ret, gen, cli, calls, search>>

Init ==
    /\ req \in Requests
    /\ ret = NoRet
    /\ gen = Idle
    /\ cli = Idle
    /\ calls = Idle
    /\ search = Idle

\* one call of the evaluator fn on the pending request
Call(fn) ==
    /\ req.fn = fn
    /\ ret = NoRet
    /\ ret' \in Resolve(Evaluate(fn, req.x, req.F))
    /\ UNCHANGED <<req, gen, cli, calls, search>>

CallLookupAcosFast == Call("LookupAcosFast")

CallLookupAcos == Call("LookupAcos")

CallLookupAtanFast == Call("LookupAtanFast")

CallLookupAtan == Call("LookupAtan")

CallLookupSinFast == Call("LookupSinFast")

CallLookupSin == Call("LookupSin")

CallLookupLog2Fast == Call("LookupLog2Fast")

CallLookupLog2 == Call("LookupLog2")

CallLookupTanFast == Call("LookupTanFast")

CallLookupTan == Call("LookupTan")

Next ==
    \/ CallLookupAcosFast
    \/ CallLookupAcos
    \/ CallLookupAtanFast
    \/ CallLookupAtan
    \/ CallLookupSinFast
    \/ CallLookupSin
    \/ CallLookupLog2Fast
    \/ CallLookupLog2
    \/ CallLookupTanFast
    \/ CallLookupTan

Spec == Init /\ [][Next]_vars

TypeOK ==
    /\ ret.path \in {"none", "clamp", "exact", "last", "interp", "ub", "zero", "idxclamp", "sentinel"}
    /\ Len(kSinLut) = lut_size
    /\ Len(kTanLut) = lut_size

(***************************************************************************)
(* The generators' loops: one entry per step                               *)
(***************************************************************************)
InitGen ==
    /\ req = NoReq
    /\ ret = NoRet
    /\ gen \in {[table |-> table, i |-> 0, lut |-> <<>>] :
                   table \in {"kAcosLut", "kAcosXValues", "kAtanLut", "kSinLut", "kLog2Lut",
                              "kTanLut", "kAtan2LUT", "CordicTable"}}
    /\ cli = Idle
    /\ calls = Idle
    /\ search = Idle

\* one iteration of the loop that fills table: scaled_value is appended
Generate(table, scaled_value) ==
    /\ gen.table = table
    /\ gen.i < Len(Reference(table))
    /\ gen' = [gen EXCEPT !.i = gen.i + 1, !.lut = Append(gen.lut, scaled_value)]
    /\ UNCHANGED <<req, ret, cli, calls, search>>

\* acos_values.append(int(acos_x * scale))
GenerateAcosLut ==
    Generate("kAcosLut", int(Reference("kAcosLut")[gen.i + 1], GuardBits))

\* int(x * scale) for the x values
GenerateAcosXValues ==
    Generate("kAcosXValues", int(Reference("kAcosXValues")[gen.i + 1], GuardBits))

GenerateAtanLut ==
    Generate("kAtanLut", int(Reference("kAtanLut")[gen.i + 1], GuardBits))

GenerateSinLut ==
    Generate("kSinLut", int(Reference("kSinLut")[gen.i + 1], GuardBits))

GenerateLog2Lut ==
    Generate("kLog2Lut", int(Reference("kLog2Lut")[gen.i + 1], GuardBits))

GenerateTanLut ==
    Generate("kTanLut", int(TanCapped(Reference("kTanLut")[gen.i + 1]), GuardBits))

\* int(float(mp.atan(mpf(x))) * (1 << P))
GenerateAtan2Lut ==
    Generate("kAtan2LUT", int(float(Reference("kAtan2LUT")[gen.i + 1]), Guard("kAtan2LUT")))

GenerateCordicTable ==
    Generate("CordicTable", int(Reference("CordicTable")[gen.i + 1], GuardBits))

NextGen ==
    \/ GenerateAcosLut
    \/ GenerateAcosXValues
    \/ GenerateAtanLut
    \/ GenerateSinLut
    \/ GenerateLog2Lut
    \/ GenerateTanLut
    \/ GenerateAtan2Lut
    \/ GenerateCordicTable

SpecGen == InitGen /\ [][NextGen]_vars

(***************************************************************************)
(* The entry points, one step per "if len(sys.argv) > k" block             *)
(***************************************************************************)
\* entries and fraction_bits start as the defaults (no word)
InitCli ==
    /\ req = NoReq
    /\ ret = NoRet
    /\ gen = Idle
    /\ \E script \in CountFirstScripts \cup FileFirstScripts \cup {"generate_constants"},
          argv \in UNION {[1..n -> Tokens] : n \in 0..MaxArgs} :
           cli = [pc |-> "argv1", script |-> script, argv |-> argv, output_file |-> <<>>,
                  entries |-> <<>>, fraction_bits |-> <<>>, exit |-> -1, message |-> <<>>,
                  generated |-> FALSE, opened |-> FALSE]
    /\ calls = Idle
    /\ search = Idle

\* if len(sys.argv) > 1: an entry count, or else the name of the output file
ParseFirstArgument ==
    /\ cli.pc = "argv1"
    /\ cli.script \in CountFirstScripts \cup FileFirstScripts
    /\ cli' = IF Len(cli.argv) < 1 THEN [cli EXCEPT !.pc = "argv2"]
              ELSE IF cli.script \in CountFirstScripts /\ IsInteger(cli.argv[1])
              THEN [cli EXCEPT !.entries = <<cli.argv[1]>>, !.pc = "argv2"]
              ELSE [cli EXCEPT !.output_file = <<cli.argv[1]>>, !.pc = "argv2"]
    /\ UNCHANGED <<req, ret, gen, calls, search>>

\* if len(sys.argv) > 2
ParseSecondArgument ==
    /\ cli.pc = "argv2"
    /\ cli' = ParseNumeric(cli, 2, IF cli.script \in {"generate_sin_lut", "generate_tan_lut"}
                                   THEN "generate" ELSE "argv3")
    /\ UNCHANGED <<req, ret, gen, calls, search>>

\* if len(sys.argv) > 3
ParseThirdArgument ==
    /\ cli.pc = "argv3"
    /\ cli' = ParseNumeric(cli, 3, "generate")
    /\ UNCHANGED <<req, ret, gen, calls, search>>

\* generate_..._lut(output_file, ...): the table is built, and written to the
\* output file when one was named ("if output_file:", false for None and "")
CallGenerator ==
    /\ cli.pc = "generate"
    /\ cli' = [cli EXCEPT !.generated = TRUE,
                          !.opened = (cli.output_file \notin {<<>>, <<<<>>>>}),
                          !.pc = "done"]
    /\ UNCHANGED <<req, ret, gen, calls, search>>

\* generate_constants: the custom constant of sys.argv[1], or the usage error;
\* without an argument, all the constants
GenerateConstants ==
    /\ cli.pc = "argv1"
    /\ cli.script = "generate_constants"
    /\ cli' = IF Len(cli.argv) < 1 \/ IsNumber(cli.argv[1])
              THEN [cli EXCEPT !.generated = TRUE, !.pc = "done"]
              ELSE [cli EXCEPT !.message = <<ErrorText(cli.script, 1), cli.argv[1]>>,
                               !.exit = 1, !.pc = "exit"]
    /\ UNCHANGED <<req, ret, gen, calls, search>>

NextCli ==
    \/ ParseFirstArgument
    \/ ParseSecondArgument
    \/ ParseThirdArgument
    \/ CallGenerator
    \/ GenerateConstants

SpecCli == InitCli /\ [][NextCli]_vars

(***************************************************************************)
(* Callers: any number of callers call the evaluators in any order         *)
(***************************************************************************)
NumCallers == 2

Callers == 1..NumCallers

AllFns == AcosFns \cup AtanFns \cup SinFns \cup Log2Fns \cup TanFns

InitCalls ==
    /\ req = NoReq
    /\ ret = NoRet
    /\ gen = Idle
    /\ cli = Idle
    /\ calls = [c \in Callers |-> [pc |-> "idle", req |-> NoReq, ret |-> NoRet]]
    /\ search = Idle

\* caller c calls an evaluator, on one of two values inside every canonical
\* domain
Invoke(c) ==
    /\ calls[c].pc \in {"idle", "returned"}
    /\ \E r \in [fn : AllFns, x : {5, 612}, F : {kOutputFractionBits}] :
           calls' = [calls EXCEPT ![c] = [pc |-> "called", req |-> r, ret |-> NoRet]]
    /\ UNCHANGED <<req, ret, gen, cli, search>>

\* the evaluator returns to caller c: it reads the constant tables and its own
\* arguments, nothing else
Return(c) ==
    /\ calls[c].pc = "called"
    /\ \E r \in Resolve(Evaluate(calls[c].req.fn, calls[c].req.x, calls[c].req.F)) :
           calls' = [calls EXCEPT ![c].pc = "returned", ![c].ret = r]
    /\ UNCHANGED <<req, ret, gen, cli, search>>

NextCalls ==
    \/ \E c \in Callers : Invoke(c)
    \/ \E c \in Callers : Return(c)

SpecCalls == InitCalls /\ [][NextCalls]_vars

(***************************************************************************)
(* FindAcosIndex, statement by statement, on the tables of every size      *)
(***************************************************************************)
MaxEntries == 8

\* kAcosXValues as generate_acos_lut writes it for entries = N
AcosXValuesOf(N) ==
    CASE N = 1 -> <<512>>
      [] N = 2 -> <<149, 874>>
      [] N = 3 -> <<68, 512, 955>>
      [] N = 4 -> <<38, 316, 707, 985>>
      [] N = 5 -> <<25, 211, 512, 812, 998>>
      [] N = 6 -> <<17, 149, 379, 644, 874, 1006>>
      [] N = 7 -> <<12, 111, 289, 512, 734, 912, 1011>>
      [] N = 8 -> <<9, 86, 227, 412, 611, 796, 937, 1014>>
      [] N = 9 -> <<7, 68, 182, 336, 512, 687, 841, 955, 1016>>
      [] N = 10 -> <<6, 55, 149, 279, 431, 592, 744, 874, 968, 1017>>

\* x ranges over the internal format from below 0 to above 1.0
InitSearch ==
    /\ req = NoReq
    /\ ret = NoRet
    /\ gen = Idle
    /\ cli = Idle
    /\ calls = Idle
    /\ \E N \in 1..MaxEntries, x \in (-1)..(one_in_fp + 1) :
           search = [pc |-> "entry", N |-> N, x |-> x, left |-> 0, right |-> 0,
                     iterations |-> 0, result |-> 0, miss |-> FALSE]

\* variant: int mid = left
Midpoint_Left(left, right) == left

\* int mid = left + (right - left) / 2
Midpoint(left, right) == left + (right - left) \div 2

\* "Handle out-of-range values", then left = 0 and right = table_size - 1
SearchEntry ==
    /\ search.pc = "entry"
    /\ search' = IF search.x >= one_in_fp
                 THEN [search EXCEPT !.pc = "done", !.result = search.N - 1]
                 ELSE IF search.x <= 0
                 THEN [search EXCEPT !.pc = "done", !.result = 0]
                 ELSE [search EXCEPT !.pc = "loop", !.left = 0, !.right = search.N - 1]
    /\ UNCHANGED <<req, ret, gen, cli, calls>>

\* one iteration of while (left <= right)
SearchIteration ==
    /\ search.pc = "loop"
    /\ search.left <= search.right
    /\ LET mid   == Midpoint(search.left, search.right)
           entry == AcosXValuesOf(search.N)[mid + 1]
           count == search.iterations + 1
       IN  search' = IF entry < search.x
                     THEN [search EXCEPT !.left = mid + 1, !.iterations = count]
                     ELSE IF entry > search.x
                     THEN [search EXCEPT !.right = mid - 1, !.iterations = count]
                     ELSE [search EXCEPT !.pc = "done", !.result = mid,
                                         !.iterations = count]
    /\ UNCHANGED <<req, ret, gen, cli, calls>>

\* the loop condition fails: "No exact match", return right
SearchExit ==
    /\ search.pc = "loop"
    /\ search.left > search.right
    /\ search' = [search EXCEPT !.pc = "done", !.result = search.right, !.miss = TRUE]
    /\ UNCHANGED <<req, ret, gen, cli, calls>>

NextSearch ==
    \/ SearchEntry
    \/ SearchIteration
    \/ SearchExit

SpecSearch == InitSearch /\ [][NextSearch]_vars

\* the function runs to its return: no statement waits for anything
FairSpecSearch == SpecSearch /\ WF_vars(NextSearch)

(***************************************************************************)
(* LookupAtanFast on the 512-entry table                                   *)
(***************************************************************************)
InitAtan512 ==
    /\ \E j \in 0..(4 * (Len(kAtanLut512) - 1)), sign \in {-1, 1} :
           req = [fn |-> "LookupAtanFast512", x |-> sign * SampleX(j), F |-> AtanFineBits]
    /\ ret = NoRet
    /\ gen = Idle
    /\ cli = Idle
    /\ calls = Idle
    /\ search = Idle

CallLookupAtanFast512 ==
    /\ req.fn = "LookupAtanFast512"
    /\ ret = NoRet
    /\ ret' = LookupAtanFastOn(kAtanLut512, AtanFineBits, req.x)
    /\ UNCHANGED <<req, gen, cli, calls, search>>

NextAtan512 == CallLookupAtanFast512

SpecAtan512 == InitAtan512 /\ [][NextAtan512]_vars
(***************************************************************************)
(* LookupAtan2Table and LookupAtan2TableFast on every ratio from 0 to 1.0  *)
(***************************************************************************)
\* the precisions P of the callers: below, at and above kTableP
Atan2Precisions == {kTableP - 1, kTableP, kTableP + 1}

InitAtan2 ==
    /\ \E P \in Atan2Precisions :
           req \in [fn : {"LookupAtan2Table", "LookupAtan2TableFast"}, x : 0..(2^P), F : {P}]
    /\ ret = NoRet
    /\ gen = Idle
    /\ cli = Idle
    /\ calls = Idle
    /\ search = Idle

CallLookupAtan2Table ==
    /\ req.fn = "LookupAtan2Table"
    /\ ret = NoRet
    /\ ret' = LookupAtan2Table(req.x, req.F)
    /\ UNCHANGED <<req, gen, cli, calls, search>>

CallLookupAtan2TableFast ==
    /\ req.fn = "LookupAtan2TableFast"
    /\ ret = NoRet
    /\ ret' = LookupAtan2TableFast(req.x, req.F)
    /\ UNCHANGED <<req, gen, cli, calls, search>>

NextAtan2 ==
    \/ CallLookupAtan2Table
    \/ CallLookupAtan2TableFast

SpecAtan2 == InitAtan2 /\ [][NextAtan2]_vars
(***************************************************************************)
(* print_constant_info on positive and negative values                     *)
(***************************************************************************)
\* the largest |value * 2^63| printed, in units of 2^-GuardBits
MaxConstant == 20000

InitConstants ==
    /\ req \in [fn : {"print_constant_info"}, x : (-MaxConstant)..MaxConstant, F : {GuardBits}]
    /\ ret = NoRet
    /\ gen = Idle
    /\ cli = Idle
    /\ calls = Idle
    /\ search = Idle

PrintConstantInfo ==
    /\ req.fn = "print_constant_info"
    /\ ret = NoRet
    /\ ret' = print_constant_info(req.x, req.F)
    /\ UNCHANGED <<req, gen, cli, calls, search>>

NextConstants == PrintConstantInfo

SpecConstants == InitConstants /\ [][NextConstants]_vars

(***************************************************************************)
(* Properties                                                              *)
(***************************************************************************)
\* the pending request has been answered
Returned == ret.path # "none"

\* |x| for a word whose negative is a word
Magnitude(x) == IF x < 0 THEN -x ELSE x

\* the magnitude of the request's value in the internal format
InternalMagnitude == ConvertInput(Magnitude(req.x), req.F)

\* the outcomes of the request's evaluator on another value, same fraction bits
OutcomesAt(x) == Resolve(Evaluate(req.fn, x, req.F))

MaxGap == 3

\* C1: when the magnitude of x in the internal format is >= 1.0, LookupAcosFast
\* and LookupAcos return exactly 0 for positive x and exactly kPi converted to
\* F for negative x, and read no table entry.
C1_AcosClampExact ==
    (/\ Returned
     /\ req.fn \in AcosFns
     /\ req.x # INT64_MIN
     /\ InternalMagnitude >= one_in_fp)
    => /\ ~ret.fault
       /\ ret.reads = {}
       /\ ret.value = IF req.x > 0 THEN 0 ELSE ConvertResult(kPi, req.F)

C1_Witness ==
    /\ req.fn = "LookupAcos"
    /\ req.x = -(2^req.F)
    /\ req.F # kOutputFractionBits
    /\ ret.path = "clamp"
    /\ ret.value = ConvertResult(kPi, req.F)
    /\ ret.value # 0

\* C2: at x = 0 the acos evaluators return a stored table sample, read from
\* kAcosLut at an index whose kAcosXValues entry is 0, not an interpolated or
\* extrapolated value.
C2_AcosZeroIsStoredSample ==
    (Returned /\ req.fn \in AcosFns /\ req.x = 0)
    => /\ ret.path = "exact"
       /\ kAcosXValues[ret.idx + 1] = 0
       /\ ret.value = ConvertResult(kAcosLut[ret.idx + 1], req.F)

\* C3: for 0 < x < 1.0, LookupAcosFast(-x, F) = P - LookupAcosFast(x, F) and
\* LookupAcos(-x, F) = P - LookupAcos(x, F), bit for bit, with P = kPi
\* converted to F, for every F.
C3_AcosReflection ==
    (/\ Returned
     /\ req.fn \in AcosFns
     /\ req.x < 0
     /\ req.x # INT64_MIN
     /\ InternalMagnitude > 0
     /\ InternalMagnitude < one_in_fp)
    => /\ ~ret.fault
       /\ \A r \in OutcomesAt(-req.x) :
            ~r.fault /\ ret.value = Wrap(ConvertResult(kPi, req.F) - r.value)

\* C4: for every x other than the minimum word, LookupAtan(-x, F) =
\* -LookupAtan(x, F) and LookupAtanFast(-x, F) = -LookupAtanFast(x, F), bit for
\* bit, on every return path.
C4_AtanOdd ==
    (Returned /\ req.fn \in AtanFns /\ req.x # INT64_MIN)
    => /\ ~ret.fault
       /\ \A r \in OutcomesAt(-req.x) : ~r.fault /\ ret.value = Wrap(-r.value)

C4_Witness ==
    /\ req.fn = "LookupAtan"
    /\ req.x < 0
    /\ req.F # kOutputFractionBits
    /\ ret.path = "interp"
    /\ ret.value < 0

\* C5: for every x, LookupSin(-x, F) = -LookupSin(x, F) and LookupSinFast(-x, F)
\* = -LookupSinFast(x, F), bit for bit.
C5_SinOdd ==
    (Returned /\ req.fn \in SinFns /\ req.x # INT64_MIN)
    => \A r \in OutcomesAt(-req.x) : ret.value = Wrap(-r.value)

C7_Log2SentinelForNonPositive ==
    (Returned /\ req.fn \in Log2Fns /\ req.x <= 0)
    => /\ ~ret.fault
       /\ ret.path = "sentinel"
       /\ ret.value = INT64_MIN
       /\ ret.reads = {}

\* C8: for x > 0 in the internal format the normalisation yields e and a
\* mantissa with kOne <= mantissa < 2*kOne, mantissa = x * 2^(-e) when e <= 0
\* and floor(x / 2^e) when e > 0, and the result is interp(mantissa) + e * 2^F.
C8_Log2Normalisation ==
    (/\ Returned
     /\ req.fn \in Log2Fns
     /\ req.F = kOutputFractionBits
     /\ req.x > 0)
    => LET e == ret.exponent
           m == ret.mantissa
           i == Log2Index(m)
       IN  /\ kOne <= m /\ m < 2 * kOne
           /\ e <= 0 => m = req.x * 2^(-e)
           /\ e > 0 => m = req.x \div 2^e
           /\ ret.idx = ((m - kOne) * (Len(kLog2Lut) - 1)) \div kOne
           /\ ret.interp = IF req.fn = "LookupLog2Fast" THEN Log2Linear(i.idx, i.t)
                                                          ELSE Log2Hermite(i.idx, i.t)
           /\ ret.value = ret.interp + e * kOne

C8_Witness ==
    /\ req.fn = "LookupLog2Fast"
    /\ req.F = kOutputFractionBits
    /\ req.x = 3 * 2^9 * kOne
    /\ ret.exponent = 10
    /\ ret.mantissa = kOne + kOne \div 2
    /\ ret.value = ret.interp + 10 * kOne

\* C9: for 0 < x < 1.0 in the internal format FindAcosIndex returns i with
\* 0 <= i <= N-1, kAcosXValues[i] <= x, and x < kAcosXValues[i+1] when i < N-1,
\* so every table read of LookupAcosFast and LookupAcos is inside the table.
C9_AcosBracketing ==
    (/\ Returned
     /\ req.fn \in AcosFns
     /\ req.x # INT64_MIN
     /\ InternalMagnitude > 0
     /\ InternalMagnitude < one_in_fp)
    => /\ ret.idx \in 0..(Len(kAcosXValues) - 1)
       /\ kAcosXValues[ret.idx + 1] <= InternalMagnitude
       /\ ret.idx < Len(kAcosXValues) - 1 => InternalMagnitude < kAcosXValues[ret.idx + 2]
       /\ ret.reads \subseteq 0..(Len(kAcosXValues) - 1)

\* C10: LookupAcosFast is non-increasing on [-1.0, 1.0]: x1 <= x2 at the same
\* fraction bits gives LookupAcosFast(x1) >= LookupAcosFast(x2).
C10_AcosNonIncreasing ==
    (/\ Returned
     /\ req.fn = "LookupAcosFast"
     /\ req.x >= -(2^req.F)
     /\ req.x <= 2^req.F)
    => \A x2 \in req.x..(req.x + MaxGap) :
         x2 <= 2^req.F
         => /\ ~ret.fault
            /\ \A r \in OutcomesAt(x2) : ~r.fault /\ ret.value >= r.value

\* C11: LookupAtanFast is non-decreasing: x1 <= x2 at the same fraction bits
\* gives LookupAtanFast(x1) <= LookupAtanFast(x2), for every x: across bracket
\* boundaries, across 0 and across the clamp at |x| >= 1.0.
C11_AtanNonDecreasing ==
    (Returned /\ req.fn = "LookupAtanFast")
    => \A x2 \in req.x..(req.x + MaxGap) :
         x2 <= INT64_MAX
         => /\ ~ret.fault
            /\ \A r \in OutcomesAt(x2) : ~r.fault /\ ret.value <= r.value

\* C12: LookupLog2Fast is non-decreasing: 0 < x1 <= x2 at the same fraction
\* bits gives LookupLog2Fast(x1) <= LookupLog2Fast(x2), across power-of-two
\* boundaries and for mantissas obtained by a truncating right shift.
C12_Log2NonDecreasing ==
    (Returned /\ req.fn = "LookupLog2Fast" /\ req.x > 0)
    => \A x2 \in req.x..(req.x + MaxGap) :
         x2 <= INT64_MAX
         => /\ ~ret.fault
            /\ \A r \in OutcomesAt(x2) : ~r.fault /\ ret.value <= r.value

\* C13: the precision adapter is lossless upward: a value converted from F to
\* a format with at least as many fraction bits (left shift) and back (right
\* shift) is the original value, for every word; and a down-conversion
\* followed by the way up and down again is the single down-conversion.
C13_AdapterRoundTrip ==
    (Returned /\ req.fn \in Log2Fns)
    => /\ req.F <= kOutputFractionBits => ConvertResult(ret.xin, req.F) = req.x
       /\ req.F >= kOutputFractionBits
            => ConvertInput(ConvertResult(ret.xin, req.F), req.F) = ret.xin

\* C14: the input up-conversion never wraps: for F below the internal count
\* the evaluator works on the mathematical integer x * 2^(internal - F) (on
\* |x| * 2^(internal - F) where the sign is split off first).
C14_UpConversionExact ==
    (/\ Returned
     /\ req.fn \in Log2Fns \cup AcosFns \cup AtanFns
     /\ req.F < kOutputFractionBits
     /\ req.x # INT64_MIN)
    => ret.xin = (IF req.fn \in Log2Fns THEN req.x ELSE Magnitude(req.x))
                 * 2^(kOutputFractionBits - req.F)

\* C15: in LookupTan, for every bracket an input reaches, the derivative
\* terms m0 = kOne + p0*p0 and m1 = kOne + p1*p1, their scaling by kStepSize
\* and the Hermite coefficients a and b stay within the range of the word,
\* the last bracket (right endpoint: the capped tan(pi/2) entry) included.
C15_TanTermsInRange ==
    (Returned /\ req.fn = "LookupTan")
    => /\ ret.idx \in 0..(Len(kTanLut) - 2)
       /\ ~ret.overflow
       /\ ~ret.fault

\* C16: every entry a generator emits is the truncation of its reference value:
\* entry <= f(x_i) * 2^F < entry + 1, for every table (kAcosLut, kAcosXValues,
\* kAtanLut, kSinLut, kLog2Lut, kTanLut below the cap, kAtan2LUT, CordicTable),
\* and the entries are those of the table the evaluators read.
C16_EntriesAreTruncations ==
    LET references == Reference(gen.table)
        unit       == 2^Guard(gen.table)
    IN  \A k \in 1..Len(gen.lut) :
            /\ gen.table \notin {"kAtan2LUT", "CordicTable"}
               => gen.lut[k] = Emitted(gen.table)[k]
            /\ (gen.table = "kTanLut" /\ references[k] > INT64_MAX * unit)
               \/ (gen.lut[k] * unit <= references[k] /\ references[k] < (gen.lut[k] + 1) * unit)

\* a generator has written a whole table, one of whose references lies in the
\* upper half of its unit, where rounding and truncation differ
C16_Witness ==
    LET references == Reference(gen.table)
        unit       == 2^Guard(gen.table)
    IN  /\ Len(gen.lut) = Len(references)
        /\ \E k \in 1..Len(gen.lut) : /\ 2 * (references[k] % unit) >= unit
                                      /\ gen.lut[k] * unit <= references[k]

\* the numeric positions of the command line whose argument does not parse
Unparseable ==
    LET positions == IF cli.script = "generate_constants" THEN {1}
                     ELSE IF cli.script \in {"generate_sin_lut", "generate_tan_lut"} THEN {2}
                     ELSE {2, 3}
    IN  {k \in positions \cap (1..Len(cli.argv)) :
            IF cli.script = "generate_constants" THEN ~IsNumber(cli.argv[k])
            ELSE ~IsInteger(cli.argv[k])}

\* C17: a command line with an argument in a numeric position that does not
\* parse never reaches the generation function and opens no output file: the
\* entry point does not get past that argument, and once it has stopped it
\* has printed the error message for the first such argument and exited with
\* status 1.
C17_UnparseableArgumentExits ==
    LET Position(pc) == CASE pc = "argv1" -> 1 [] pc = "argv2" -> 2 [] pc = "argv3" -> 3
                          [] pc = "generate" -> 4 [] pc = "done" -> 5 [] OTHER -> 0
    IN  Unparseable # {}
        => /\ ~cli.generated
           /\ ~cli.opened
           /\ \A k \in Unparseable : Position(cli.pc) <= k
           /\ cli.pc = "exit"
              => /\ cli.exit = 1
                 /\ \E k \in Unparseable :
                        /\ \A j \in Unparseable : k <= j
                        /\ cli.message = <<ErrorText(cli.script, k), cli.argv[k]>>

\* an output file was named and the third argument does not parse: the entry
\* point has exited
C17_Witness ==
    /\ cli.pc = "exit"
    /\ cli.output_file \notin {<<>>, <<<<>>>>}
    /\ Unparseable = {3}
    /\ cli.exit = 1

\* C18: evaluation is stateless: whatever calls came before or run at the same
\* time, two completed calls of the same evaluator with the same (value,
\* fraction bits) have returned the same bits.
C18_SameCallSameResult ==
    \A a, b \in Callers :
        (/\ calls[a].pc = "returned"
         /\ calls[b].pc = "returned"
         /\ calls[a].req = calls[b].req)
        => /\ calls[a].ret.fault = calls[b].ret.fault
           /\ calls[a].ret.value = calls[b].ret.value

\* C19: the binary search of FindAcosIndex returns for every x and every table
\* size N >= 1, after at most floor(log2(N)) + 1 iterations of its loop, and
\* when it misses it leaves the loop with right = left - 1.
C19_SearchTerminates ==
    /\ <>(search.pc = "done")
    /\ [](search.iterations <= MostSignificantBit(search.N) + 1)
    /\ []((search.pc = "done" /\ search.miss) => search.right = search.left - 1)

\* a search of the largest table that used every iteration of the bound and
\* missed
C19_Witness ==
    /\ search.pc = "done"
    /\ search.N = MaxEntries
    /\ search.miss
    /\ search.iterations = MostSignificantBit(search.N) + 1
    /\ search.right = search.left - 1

\* 1.5e-5 in units of 2^-GuardBits of the table's unit, less the one unit by
\* which a reference is below the value it stands for
ErrorBound == (15 * 2^(AtanFineBits + GuardBits)) \div 1000000 - 1

\* C20: with 512 entries, for every x in [-1, 1] the result of LookupAtanFast is
\* within 1.5e-5 of atan(x): table truncation, index scaling and interpolation
\* together.
C20_AtanFastErrorBound ==
    (Returned /\ req.fn = "LookupAtanFast512")
    => LET result    == Magnitude(ret.value) * 2^GuardBits
           reference == AtanReference(Magnitude(req.x))
       IN  /\ (req.x < 0) = (ret.value < 0) \/ ret.value = 0
           /\ result - reference <= ErrorBound
           /\ reference - result <= ErrorBound

\* a call on a negative x in the middle half of a bracket, where the chord is
\* farthest from the curve, whose result is more than a whole unit of the
\* table away from atan(x)
C20_Witness ==
    /\ Returned
    /\ req.fn = "LookupAtanFast512"
    /\ ret.path = "interp"
    /\ ret.t >= 2^(AtanFineBits - 2)
    /\ ret.t <= 3 * 2^(AtanFineBits - 2)
    /\ req.x < 0
    /\ AtanReference(-req.x) - Magnitude(ret.value) * 2^GuardBits > 2^GuardBits

\* C21: in LookupSin and LookupSinFast, for every input, the reduction leaves
\* x in [0, kPiOver2], and flip_sign is set exactly when the angle normalised to
\* [0, kTwoPi) is greater than kPi, although kTwoPi, kPi and kPiOver2 are
\* truncated independently (here kTwoPi = 2 * kPi + 1).
C21_SinReductionRange ==
    (Returned /\ req.fn \in SinFns)
    => /\ ~ret.fault
       /\ 0 <= ret.xin /\ ret.xin <= kPiOver2
       /\ ret.neg = ((ConvertInput(req.x, req.F) % kTwoPi) > kPi)

\* a negative angle one unit below zero: normalised it is kTwoPi - 1 = 2 * kPi,
\* it is moved down by kPi and reflected
C21_Witness ==
    /\ Returned
    /\ req.fn \in SinFns
    /\ req.x < 0
    /\ kTwoPi # 2 * kPi
    /\ ConvertInput(req.x, req.F) % kTwoPi = kTwoPi - 1
    /\ ret.neg
    /\ ret.xin = 0

\* C22: in the uniform-table evaluators (LookupAtan, LookupAtanFast, LookupSin,
\* LookupSinFast, LookupTan, LookupTanFast, LookupLog2, LookupLog2Fast), for
\* every input, every table read uses an index in [0, N-1]; at the
\* interpolation step idx is in [0, N-2] and t is in [0, kOne); in LookupSin
\* the derivative indices cos_idx = N-1-idx and cos_idx-1 are in [0, N-1].
C22_TableReadsInRange ==
    (Returned /\ req.fn \in AtanFns \cup SinFns \cup TanFns \cup Log2Fns)
    => LET N == CASE req.fn \in AtanFns -> Len(kAtanLut)
                  [] req.fn \in SinFns  -> Len(kSinLut)
                  [] req.fn \in TanFns  -> Len(kTanLut)
                  [] req.fn \in Log2Fns -> Len(kLog2Lut)
           interpolated == ret.path \in {"interp", "ub"} /\ ret.reads # {}
       IN  /\ ret.reads \subseteq 0..(N - 1)
           /\ interpolated
              => /\ 0 <= ret.idx /\ ret.idx <= N - 2
                 /\ 0 <= ret.t /\ ret.t < kOne
                 /\ {ret.idx, ret.idx + 1} \subseteq ret.reads
           /\ req.fn = "LookupSin"
              => /\ N - 1 - ret.idx \in ret.reads
                 /\ N - 1 - ret.idx \in 0..(N - 1)
                 /\ N - 1 - ret.idx - 1 \in 0..(N - 1)

\* LookupSin in the last bracket: the reads are N-2, N-1 for the endpoints and
\* 1, 0 for the derivatives
C22_Witness ==
    /\ Returned
    /\ req.fn = "LookupSin"
    /\ ret.idx = Len(kSinLut) - 2
    /\ ret.t > 0
    /\ ret.reads = {0, 1, Len(kSinLut) - 2, Len(kSinLut) - 1}

\* C23: in LookupAtan the scaled derivatives fed to the Hermite formula are
\* the function's derivative times the sample spacing h = 1/(N-1):
\* m0_scaled = atan'(x0) * h and m1_scaled = atan'(x1) * h, where x0 = idx/(N-1)
\* and x1 = (idx+1)/(N-1), to within two units of the format.
C23_AtanDerivativeScaling ==
    (Returned /\ req.fn = "LookupAtan" /\ ret.path = "interp")
    => LET scale == Len(kAtanLut) - 1
           \* atan'(k/scale) / scale = scale / (scale^2 + k^2), in units of 1/kOne
           slope(k) == (kOne * scale) \div (scale * scale + k * k)
           m == AtanDerivatives(ret.idx)
       IN  /\ Magnitude(m.m0_scaled - slope(ret.idx)) <= 2
           /\ Magnitude(m.m1_scaled - slope(ret.idx + 1)) <= 2

\* C24: the cubic Hermite evaluators reproduce the stored sample at a node: in
\* LookupAtan, LookupSin, LookupTan and LookupLog2, whenever the offset t is 0
\* the interpolated value is p0 = table[idx] exactly, whatever m0 and m1 are;
\* the coefficients a = 2(p0-p1)+m0+m1, b = -3(p0-p1)-2m0-m1, c = m0, d = p0,
\* evaluated as ((a*t+b)*t+c)*t+d, are those of the cubic through p0 and p1
\* with slopes m0 and m1 (a+b+c+d = p1 and 3a+2b+c = m1).
C24_HermiteReproducesNode ==
    (/\ Returned
     /\ req.fn \in {"LookupAtan", "LookupSin", "LookupTan", "LookupLog2"}
     /\ ret.path \in {"interp", "ub"}
     /\ ret.reads # {}
     /\ ret.t = 0)
    => LET lut == CASE req.fn = "LookupAtan" -> kAtanLut
                    [] req.fn = "LookupSin"  -> kSinLut
                    [] req.fn = "LookupTan"  -> kTanLut
                    [] req.fn = "LookupLog2" -> kLog2Lut
           p0 == lut[ret.idx + 1]
           p1 == lut[ret.idx + 2]
           signed == IF ret.neg THEN Wrap(-p0) ELSE p0
       IN  /\ ~ret.fault
           /\ ret.value =
                CASE req.fn = "LookupAtan" -> ApplySign(ConvertResult(p0, req.F), ret.neg)
                  [] req.fn = "LookupSin"  -> ConvertResult(signed, req.F)
                  [] req.fn = "LookupTan"  -> ConvertResult(signed, req.F)
                  [] req.fn = "LookupLog2" -> Log2Finish(p0, ret.exponent, req.F)
           /\ \A m0, m1 \in {-kOne, -1, 0, 3, kOne} :
                LET a == HermiteA(p0, p1, m0, m1)
                    b == HermiteB(p0, p1, m0, m1)
                IN  /\ Horner(a, b, m0, p0, 0) = p0
                    /\ Wrap(a + b + m0 + p0) = p1
                    /\ Wrap(3 * a + 2 * b + m0) = m1

\* a Hermite evaluation at an inner node of its table
C24_Witness ==
    /\ Returned
    /\ req.fn \in {"LookupAtan", "LookupSin", "LookupTan", "LookupLog2"}
    /\ ret.path = "interp"
    /\ ret.t = 0
    /\ ret.idx > 0
    /\ ret.value # 0

\* C25: in LookupAtan2TableFast, for every ratio in [0, 1), the selected index
\* i brackets the input with respect to the sample positions of kAtan2LUT
\* (entry k holds atan(k/(N-1))): i/(N-1) <= x < (i+1)/(N-1); frac/256 is the
\* normalised offset inside that bracket; and the function is non-decreasing
\* in ratio over [0, 1], also where the index is clamped to N-2.
C25_Atan2FastBrackets ==
    (Returned /\ req.fn = "LookupAtan2TableFast")
    => LET N == Len(kAtan2LUT)
           scaled == ret.xin * (N - 1)                 \* x * (N-1) in units of 2^-kTableP
           offset == scaled - ret.idx * 2^kTableP      \* (x - i/(N-1)) * (N-1)
       IN  /\ req.x < 2^req.F
              => /\ ret.idx * 2^kTableP <= scaled
                 /\ scaled < (ret.idx + 1) * 2^kTableP
                 /\ ret.t = (256 * offset) \div 2^kTableP
           /\ req.x > 0
              => LookupAtan2TableFast(req.x - 1, req.F).value <= ret.value

\* C26: in LookupAtan2Table, for every ratio in [0, 1.0] and every precision
\* P, the index is in [0, N-2], frac is in [0, kIndexScale], and the result is
\* in [0, kAtan2LUT[N-1]] converted to P; ratio = 1.0 returns exactly the last
\* table entry (converted to P) and ratio = 0 returns 0.
C26_Atan2TableRange ==
    (Returned /\ req.fn = "LookupAtan2Table")
    => LET N == Len(kAtan2LUT)
           kIndexScale == 2^kTableP \div (N - 1)
           last == IF req.F > kTableP THEN kAtan2LUT[N] * 2^(req.F - kTableP)
                   ELSE kAtan2LUT[N] \div 2^(kTableP - req.F)
       IN  /\ 0 <= ret.idx /\ ret.idx <= N - 2
           /\ ret.reads \subseteq 0..(N - 1)
           /\ 0 <= ret.t /\ ret.t <= kIndexScale
           /\ 0 <= ret.value /\ ret.value <= last
           /\ req.x = 2^req.F => ret.value = last
           /\ req.x = 0 => ret.value = 0

\* ratio = 1.0 at a precision above kTableP: the index is clamped to N-2 with
\* frac = kIndexScale and the last entry comes back shifted up
C26_Witness ==
    /\ Returned
    /\ req.fn = "LookupAtan2Table"
    /\ req.F > kTableP
    /\ req.x = 2^req.F
    /\ ret.idx = Len(kAtan2LUT) - 2
    /\ ret.t = 2^kTableP \div (Len(kAtan2LUT) - 1)
    /\ ret.value = 2 * kAtan2LUT[Len(kAtan2LUT)]

\* C27: LookupLog2Fast and LookupLog2 return the sentinel INT64_MIN only for
\* inputs that are <= 0: for every x > 0 and every input fraction-bit count,
\* also one above the internal count, the result is a log2 value and not the
\* sentinel.
C27_Log2SentinelOnlyForNonPositive ==
    (Returned /\ req.fn \in Log2Fns /\ req.x > 0)
    => /\ ~ret.fault
       /\ ret.path # "sentinel"
       /\ ret.value # INT64_MIN

\* C28: log2 is exact at powers of two: for every integer k with 2^k
\* representable in the internal format, LookupLog2Fast and LookupLog2 at
\* x = 2^k return exactly k * 2^F (mantissa = kOne, idx = 0, t = 0, table entry
\* 0 is 0), for negative k as well as positive.
C28_Log2ExactAtPowersOfTwo ==
    \A j \in 0..(WordBits - 2) :
        (/\ Returned
         /\ req.fn \in Log2Fns
         /\ req.F = kOutputFractionBits
         /\ req.x = 2^j)                              \* x = 2^k, k = j - F
        => /\ ~ret.fault
           /\ ret.value = (j - kOutputFractionBits) * kOne
           /\ ret.mantissa = kOne
           /\ ret.exponent = j - kOutputFractionBits
           /\ ret.idx = 0
           /\ ret.t = 0
           /\ kLog2Lut[1] = 0
           /\ ret.interp = 0

\* the smallest power of two of the format, 2^-F, through the Hermite
\* evaluator: the result is -F
C28_Witness ==
    /\ Returned
    /\ req.fn = "LookupLog2"
    /\ req.F = kOutputFractionBits
    /\ req.x = 1
    /\ ret.exponent = -kOutputFractionBits
    /\ ret.value = -kOutputFractionBits * kOne

\* C29: the tan evaluators are periodic in the stored constant kPi: for every
\* x at the internal fraction-bit count, LookupTanFast(x + kPi) =
\* LookupTanFast(x) and LookupTan(x + kPi) = LookupTan(x), bit for bit, also
\* when x is negative and x + kPi positive and when the reduced angle equals
\* kPiOver2; after the reduction the angle is always in [0, kPiOver2].
C29_TanPeriodic ==
    (/\ Returned
     /\ req.fn \in TanFns
     /\ req.F = kOutputFractionBits
     /\ req.x + kPi <= INT64_MAX)
    => /\ ~ret.fault
       /\ 0 <= ret.xin /\ ret.xin <= kPiOver2
       /\ \A r \in OutcomesAt(req.x + kPi) : ~r.fault /\ r.value = ret.value

\* C30: print_constant_info splits the scaled constant without loss: for every
\* value v, positive or negative, with n = trunc(v * 2^63), the emitted parts
\* satisfy 0 <= lo < 2^64 and hi * 2^64 + lo = n, and the "Full 128-bit hex"
\* field is n mod 2^128 (the parts are PartBits wide here).
C30_ConstantSplitLossless ==
    (Returned /\ req.fn = "print_constant_info")
    => LET numeral(d) ==
               LET RECURSIVE value(_)
                   value(k) == IF k = 0 THEN 0 ELSE 16 * value(k - 1) + d[k]
               IN  value(Len(d))
           unit == 2^req.F
           n  == IF req.x >= 0 THEN req.x \div unit ELSE -((-req.x) \div unit)
           hi == IF ret.high_part_str.sign = "-" THEN -numeral(ret.high_part_str.hex)
                 ELSE numeral(ret.high_part_str.hex)
           lo == numeral(ret.low_part_str)
       IN  /\ 0 <= lo /\ lo < 2^PartBits
           /\ hi * 2^PartBits + lo = n
           /\ numeral(ret.full_str) = n % 2^(2 * PartBits)
           /\ Len(ret.low_part_str) = PartBits \div 4
           /\ Len(ret.full_str) = (2 * PartBits) \div 4

\* a negative value with a fraction to cut off, below the range of two parts:
\* the high part is printed with a minus sign and the low part is not zero
C30_Witness ==
    /\ Returned
    /\ req.fn = "print_constant_info"
    /\ req.x < -(2^(2 * PartBits + req.F))
    /\ req.x % 2^req.F # 0
    /\ ret.high_part_str.sign = "-"
    /\ Len(ret.high_part_str.hex) > 1
    /\ ret.low_part_str # <<0>>

====
